---- MODULE Spec2Model ----
(***************************************************************************)
(* Model of the Jasper research orchestration engine:                      *)
(*   JasperController.run  (src/jasper/core/controller.py)                 *)
(*   Planner.plan          (src/agent/planner.py)                          *)
(*   Executor.execute_task (src/agent/executor.py)                         *)
(*   FinancialDataRouter   (src/jasper/tools/financials.py)                *)
(*   validator.validate    (src/agent/validator.py)                        *)
(*                                                                         *)
(* Strings are modelled as sequences of tokens: concatenation is \o, the   *)
(* substring test "x in s" is membership of a token, and s.lower() maps    *)
(* every token to its lower-case form.  An optional value is a sequence of *)
(* length at most one: <<>> is None, <<v>> is the value v.                  *)
(***************************************************************************)
EXTENDS Integers, Sequences, FiniteSets, TLC

VARIABLES
    pc,                 \* position of run() in its code
    query,              \* state.query
    status,             \* state.status
    plan,               \* state.plan : sequence of Task records
    task_results,       \* state.task_results : insertion-ordered dict, a sequence of <<id, payload>>
    current_task_index, \* state.current_task_index (0-based, as enumerate gives it)
    idx,                \* loop variable of `for idx, task in enumerate(state.plan)`
    validation,         \* state.validation : optional validationresult
    final_answer,       \* state.final_answer : optional string
    report,             \* state.report : optional FinalReport
    error,              \* state.error : optional string
    error_source,       \* state.error_source : optional string
    exc,                \* message of the exception in flight, if any
    calls,              \* how often each collaborator has been invoked in this run, and
                        \* the message the synthesis handler classified, if it ran
    router,             \* one call of FinancialDataRouter.fetch_income_statement, stepwise
    cli,                \* the command-line entry point: environment, arguments, position
    runs                \* run() invocations interleaved on one controller instance

\* the fields of one run and its bookkeeping
runvars == <<pc, query, status, plan, task_results, current_task_index, idx, validation,
             final_answer, report, error, error_source, exc, calls>>

vars == <<pc, query, status, plan, task_results, current_task_index, idx, validation,
          final_answer, report, error, error_source, exc, calls, router, cli, runs>>

(***************************************************************************)
(* Bounds                                                                  *)
(***************************************************************************)
MaxTasks == 2
NumProviders == 2

(***************************************************************************)
(* Optional values and strings                                             *)
(***************************************************************************)
None == <<>>
Some(v) == <<v>>
IsNone(o) == o = <<>>
IsSet(o) == o # <<>>
Get(o) == o[1]

Contains(s, tok) == \E i \in 1..Len(s) : s[i] = tok

LowerTok(t) ==
    CASE t = "Income Statement" -> "income statement"
      [] t = "Provider Returned Error" -> "provider returned error"
      [] t = "Unauthorized" -> "unauthorized"
      [] t = "Timeout" -> "timeout"
      [] OTHER -> t

Lower(s) == [i \in 1..Len(s) |-> LowerTok(s[i])]

UpperTok(t) ==
    CASE t = "aapl" -> "AAPL"
      [] t = "msft" -> "MSFT"
      [] OTHER -> t

\* Python truthiness of an optional string: neither None nor ""
TruthyStr(o) == IsSet(o) /\ Get(o) # <<>>

(***************************************************************************)
(* Task / Plan model                                                       *)
(***************************************************************************)
TaskId(i) == "t" \o ToString(i)

NoTicker == [kind |-> "none", val |-> ""]
StrTicker(v) == [kind |-> "str", val |-> v]
ObjTicker == [kind |-> "obj", val |-> "['AAPL']"]

\* `if not ticker`
TickerFalsy(tk) == tk.kind = "none" \/ (tk.kind = "str" /\ tk.val = "")

Descriptions == { <<"Fetch ", "Income Statement">>, <<"Fetch ", "news">> }
Tickers == { NoTicker, StrTicker("aapl"), ObjTicker }
PlannedErrors == { None, Some(<<"stale">>) }
PlannedStatuses == { "pending", "in_progress", "completed" }

\* what the reasoning oracle may put into one entry of "tasks"
Symbols == { NoTicker }
ToolNames == { "income_statement" }
TaskSpecs ==
    [description : Descriptions, tool_name : ToolNames, ticker : Tickers,
     symbol : Symbols, status : {"pending"}, error : PlannedErrors]
    \cup
    \* "status" is read from the oracle's reply too
    [description : {<<"Fetch ", "Income Statement">>}, tool_name : ToolNames,
     ticker : {StrTicker("aapl")}, symbol : Symbols, status : PlannedStatuses \ {"pending"},
     error : {None}]

SeqsUpTo(S, n) == UNION { [1..k -> S] : k \in 0..n }

(***************************************************************************)
(* Result payloads                                                         *)
(***************************************************************************)
Absent == [k |-> "absent", n |-> 0]
IntRev(n) == [k |-> "int", n |-> n]
StrRev(n) == [k |-> "numstr", n |-> n]      \* a string such as "-5" or "100000"
BadRev == [k |-> "badstr", n |-> 0]        \* a string float() cannot parse
HugeRev == [k |-> "hugeint", n |-> 0]      \* an int too large for a float

PyNone == [type |-> "none", len |-> 0, rev |-> Absent, items |-> <<>>]
Dict(len, rev) == [type |-> "dict", len |-> len, rev |-> rev, items |-> <<>>]
List(items) == [type |-> "list", len |-> Len(items), rev |-> Absent, items |-> items]
Scalar(truthy) == [type |-> "scalar", len |-> IF truthy THEN 1 ELSE 0, rev |-> Absent, items |-> <<>>]

\* `not data`
Falsy(p) == p.type = "none" \/ p.len = 0

\* float(revenue): a number, or the exception it raises
FloatOf(rev) ==
    CASE rev.k \in {"int", "numstr"} -> [ok |-> TRUE, n |-> rev.n, raises |-> ""]
      [] rev.k = "badstr" -> [ok |-> FALSE, n |-> 0, raises |-> "ValueError"]
      [] rev.k = "hugeint" -> [ok |-> FALSE, n |-> 0, raises |-> "OverflowError"]
      [] OTHER -> [ok |-> FALSE, n |-> 0, raises |-> "TypeError"]

(***************************************************************************)
(* Planner.plan                                                            *)
(***************************************************************************)
\* a raised exception carrying message m / a returned value v
Raise(m) == [raises |-> TRUE, msg |-> m, value |-> <<>>]
Return(v) == [raises |-> FALSE, msg |-> <<>>, value |-> v]

\* Task(id=..., description=..., tool_args=..., status=..., error=...)
Task(i, t) ==
    [id |-> TaskId(i), description |-> t.description, tool_name |-> t.tool_name,
     ticker |-> t.ticker, symbol |-> t.symbol, status |-> t.status, error |-> t.error]

\* variant without the `if not tasks: raise` guard
PlannerPlanNoEmptyCheck(response) ==
    IF response.raises
    THEN response
    ELSE Return([i \in 1..Len(response.value) |-> Task(i, response.value[i])])

\* response: the oracle call either fails (Raise) or yields the parsed "tasks" list
PlannerPlan(response) ==
    IF response.raises
    THEN response
    ELSE LET tasks == [i \in 1..Len(response.value) |-> Task(i, response.value[i])]
         IN  IF tasks = <<>>
             THEN Raise(<<"Planner produced empty task list">>)
             ELSE Return(tasks)

\* failures of the oracle call or of parsing its text
OracleFailures == { <<"invalid syntax">> }
OracleResponses ==
    { Raise(m) : m \in OracleFailures } \cup { Return(ts) : ts \in SeqsUpTo(TaskSpecs, MaxTasks) }

(***************************************************************************)
(* FinancialDataRouter.fetch_income_statement                              *)
(***************************************************************************)
ProviderName(i) == "Provider" \o ToString(i)

RECURSIVE Join(_, _)
Join(strs, sep) ==
    IF strs = <<>> THEN <<>>
    ELSE IF Len(strs) = 1 THEN strs[1]
    ELSE strs[1] \o <<sep>> \o Join(Tail(strs), sep)

DataProviderError(ticker, errors) ==
    [raises |-> TRUE,
     msg |-> <<"All providers failed to fetch income statement for ", ticker.val, ". Verify the ticker is valid">>,
     value |-> <<>>,
     debug_details |-> <<"Provider errors: ">> \o Join(errors, "; "),
     invoked |-> Len(errors)]

\* outs[i] is what provider i does when asked: Raise(m) or Return(payload)
RECURSIVE TryProviders(_, _, _, _)
TryProviders(ticker, outs, i, errors) ==
    IF i > Len(outs)
    THEN DataProviderError(ticker, errors)
    ELSE LET o == outs[i] IN
         IF o.raises
         THEN TryProviders(ticker, outs, i + 1, Append(errors, <<ProviderName(i), ": ">> \o o.msg))
         ELSE IF o.value.type = "none"
         THEN TryProviders(ticker, outs, i + 1, Append(errors, <<ProviderName(i), ": returned None">>))
         ELSE IF o.value.type \in {"list", "dict"} /\ o.value.len = 0
         THEN TryProviders(ticker, outs, i + 1, Append(errors, <<ProviderName(i), ": returned empty data">>))
         ELSE [raises |-> FALSE, msg |-> <<>>, value |-> o.value,
               debug_details |-> <<>>, invoked |-> i]

fetch_income_statement(ticker, outs) == TryProviders(ticker, outs, 1, <<>>)

\* payloads a provider hands back during a run
RunPayloads ==
    { PyNone, Dict(0, Absent), List(<<>>),
      Dict(1, IntRev(100)), Dict(1, StrRev(0 - 5)), Scalar(FALSE), Dict(1, HugeRev) }
ProviderOutcomes == { Raise(<<"HTTP 500">>) } \cup { Return(p) : p \in RunPayloads }

\* no router call in progress
RouterIdle ==
    [pc |-> "idle", ticker |-> NoTicker, outs |-> <<>>, i |-> 0, errors |-> <<>>,
     invoked |-> <<>>, result |-> None, error |-> None]

(***************************************************************************)
(* Executor.execute_task                                                   *)
(***************************************************************************)
\* task_results[id] = result on an insertion-ordered dict
DictHas(d, id) == \E i \in 1..Len(d) : d[i][1] = id
\* variant that puts a new entry in front of the older ones
DictSetFront(d, id, v) ==
    IF DictHas(d, id)
    THEN [i \in 1..Len(d) |-> IF d[i][1] = id THEN <<id, v>> ELSE d[i]]
    ELSE << <<id, v>> >> \o d

DictSet(d, id, v) ==
    IF DictHas(d, id)
    THEN [i \in 1..Len(d) |-> IF d[i][1] = id THEN <<id, v>> ELSE d[i]]
    ELSE Append(d, <<id, v>>)
DictKeys(d) == [i \in 1..Len(d) |-> d[i][1]]
DictGet(d, id) == d[CHOOSE i \in 1..Len(d) : d[i][1] = id][2]

\* the body of the try block: what it raises, or the payload it stores
\* (fetches: how many times it called the router)
ExecuteBody(task, outs) ==
    IF Contains(Lower(task.description), "income statement")
    THEN IF TickerFalsy(task.ticker)
         THEN [raises |-> TRUE, fetches |-> 0, value |-> <<>>,
               msg |-> <<"No ticker found for task: ">> \o task.description]
         ELSE LET r == fetch_income_statement(task.ticker, outs)
              IN  [raises |-> r.raises, fetches |-> 1, value |-> r.value, msg |-> r.msg]
    ELSE [raises |-> TRUE, fetches |-> 0, value |-> <<>>,
          msg |-> <<"Unknown task description: ">> \o task.description]

(***************************************************************************)
(* validator.validate                                                      *)
(***************************************************************************)
\* variant that reports failed tasks only
RECURSIVE IncompleteIssuesFailedOnly(_)
IncompleteIssuesFailedOnly(p) ==
    IF p = <<>> THEN <<>>
    ELSE (IF p[1].status = "failed"
          THEN << <<"Incomplete task: ">> \o p[1].description >>
          ELSE <<>>) \o IncompleteIssuesFailedOnly(Tail(p))

RECURSIVE IncompleteIssues(_)
IncompleteIssues(p) ==
    IF p = <<>> THEN <<>>
    ELSE (IF p[1].status # "completed"
          THEN << <<"Incomplete task: ">> \o p[1].description >>
          ELSE <<>>) \o IncompleteIssues(Tail(p))

\* variant that reports None entries only
RECURSIVE EmptyDataIssuesNoneOnly(_)
EmptyDataIssuesNoneOnly(d) ==
    IF d = <<>> THEN <<>>
    ELSE (IF d[1][2].type = "none"
          THEN << <<"Empty data for task ", d[1][1]>> >>
          ELSE <<>>) \o EmptyDataIssuesNoneOnly(Tail(d))

RECURSIVE EmptyDataIssues(_)
EmptyDataIssues(d) ==
    IF d = <<>> THEN <<>>
    ELSE (IF Falsy(d[1][2])
          THEN << <<"Empty data for task ", d[1][1]>> >>
          ELSE <<>>) \o EmptyDataIssues(Tail(d))

\* reports = result if isinstance(result, list) else [result]
ReportsOf(result) == IF result.type = "list" THEN result.items ELSE <<result>>

RECURSIVE AllReports(_)
AllReports(d) ==
    IF d = <<>> THEN <<>> ELSE ReportsOf(d[1][2]) \o AllReports(Tail(d))

\* variant that compares numbers only and skips numeric strings
RevenueCheckNumbersOnly(r) ==
    IF r.type # "dict" \/ r.rev = Absent THEN "skip"
    ELSE IF r.rev.k = "numstr" THEN "skip"
    ELSE LET f == FloatOf(r.rev) IN
         IF f.ok THEN (IF f.n < 0 THEN "negative" ELSE "skip")
         ELSE IF f.raises \in {"ValueError", "TypeError"} THEN "skip"
         ELSE "raise"

\* the revenue check of one report: an issue, nothing, or an escaping exception
RevenueCheck(r) ==
    IF r.type # "dict" \/ r.rev = Absent THEN "skip"
    ELSE LET f == FloatOf(r.rev) IN
         IF f.ok THEN (IF f.n < 0 THEN "negative" ELSE "skip")
         ELSE IF f.raises \in {"ValueError", "TypeError"} THEN "skip"
         ELSE "raise"

\* _validate_financial_consistency: stops at the first escaping exception
RECURSIVE ConsistencyIssues(_)
ConsistencyIssues(rs) ==
    IF rs = <<>> THEN Return(<<>>)
    ELSE LET c == RevenueCheck(rs[1]) IN
         IF c = "raise" THEN Raise(<<"int too large to convert to float">>)
         ELSE LET rest == ConsistencyIssues(Tail(rs)) IN
              IF rest.raises THEN rest
              ELSE Return((IF c = "negative" THEN << <<"Negative revenue detected">> >> ELSE <<>>)
                          \o rest.value)

ValidConfidence == 90      \* 0.9, in hundredths
InvalidConfidence == 30    \* 0.3, in hundredths

validate(p, results) ==
    LET fin == ConsistencyIssues(AllReports(results)) IN
    IF fin.raises THEN fin
    ELSE LET issues == IncompleteIssues(p) \o EmptyDataIssues(results) \o fin.value
             is_valid == Len(issues) = 0
         IN  Return([is_valid |-> is_valid, issues |-> issues,
                     confidence |-> IF is_valid THEN ValidConfidence ELSE InvalidConfidence])

(***************************************************************************)
(* JasperController._build_final_report                                    *)
(***************************************************************************)
\* variant that reads the "ticker" key only
TickerArgTickerOnly(task) == task.ticker

\* task.tool_args.get("ticker") or task.tool_args.get("symbol")
TickerArg(task) == IF TickerFalsy(task.ticker) THEN task.symbol ELSE task.ticker

\* tool_name.replace("_", " ").title()
Humanize(name) ==
    CASE name = "income_statement" -> "Income Statement"
      [] OTHER -> name

RECURSIVE CollectTickers(_)
CollectTickers(p) ==
    IF p = <<>> THEN Return(<<>>)
    ELSE LET tk == TickerArg(p[1]) IN
         IF TickerFalsy(tk) THEN CollectTickers(Tail(p))
         ELSE IF tk.kind # "str"
         THEN Raise(<<"'list' object has no attribute 'upper'">>)
         ELSE LET rest == CollectTickers(Tail(p)) IN
              IF rest.raises THEN rest ELSE Return(<<UpperTok(tk.val)>> \o rest.value)

RECURSIVE Dedupe(_, _)
Dedupe(ts, unique) ==
    IF ts = <<>> THEN unique
    ELSE Dedupe(Tail(ts), IF \E i \in 1..Len(unique) : unique[i] = ts[1]
                          THEN unique ELSE Append(unique, ts[1]))

DefaultSources == { "SEC EDGAR", "Financial Data Providers" }

Sources(p) ==
    LET named == { Humanize(p[i].tool_name) : i \in { j \in 1..Len(p) : p[j].tool_name # "" } }
    IN  IF named = {} THEN DefaultSources ELSE named

build_final_report(q, p, results, val, answer) ==
    LET tickers == CollectTickers(p) IN
    IF tickers.raises THEN tickers
    ELSE Return([query |-> q,
                 data_sources |-> Sources(p),
                 tickers |-> Dedupe(tickers.value, <<>>),
                 synthesis_text |-> IF TruthyStr(answer) THEN Get(answer) ELSE <<>>,
                 is_valid |-> IF IsSet(val) THEN Get(val).is_valid ELSE FALSE,
                 validation_issues |-> IF IsSet(val) THEN Get(val).issues ELSE <<>>,
                 confidence_score |-> IF IsSet(val) THEN Get(val).confidence ELSE 0,
                 task_count |-> Len(p),
                 task_results |-> results])

(***************************************************************************)
(* Classification of a failure caught around the synthesis block           *)
(***************************************************************************)
\* variant that tests the authorization signature before the service one
ClassifyAuthFirst(error_msg) ==
    IF Contains(error_msg, "401") \/ Contains(Lower(error_msg), "unauthorized")
    THEN [error |-> <<"LLM authentication failed. Check your OpenRouter API key.">>,
          error_source |-> "llm_auth"]
    ELSE IF Contains(error_msg, "524") \/ Contains(Lower(error_msg), "provider returned error")
    THEN [error |-> <<"LLM service error (code 524): Temporary rate limit. Please try again in a moment.">>,
          error_source |-> "llm_service"]
    ELSE IF Contains(Lower(error_msg), "timeout")
    THEN [error |-> <<"LLM request timed out. Please try again.">>,
          error_source |-> "llm_timeout"]
    ELSE [error |-> <<"Answer synthesis failed: ">> \o error_msg,
          error_source |-> "llm_unknown"]

Classify(error_msg) ==
    IF Contains(error_msg, "524") \/ Contains(Lower(error_msg), "provider returned error")
    THEN [error |-> <<"LLM service error (code 524): Temporary rate limit. Please try again in a moment.">>,
          error_source |-> "llm_service"]
    ELSE IF Contains(error_msg, "401") \/ Contains(Lower(error_msg), "unauthorized")
    THEN [error |-> <<"LLM authentication failed. Check your OpenRouter API key.">>,
          error_source |-> "llm_auth"]
    ELSE IF Contains(Lower(error_msg), "timeout")
    THEN [error |-> <<"LLM request timed out. Please try again.">>,
          error_source |-> "llm_timeout"]
    ELSE [error |-> <<"Answer synthesis failed: ">> \o error_msg,
          error_source |-> "llm_unknown"]

(***************************************************************************)
(* Collaborators of the controller                                         *)
(***************************************************************************)
Queries == { <<"What is Apple's revenue trend?">> }

\* logger.log(...) returns, or raises
LogOutcomes == { Return(<<>>), Raise(<<"log sink closed">>) }

\* synthesizer.synthesize(state) returns the narrative, or raises
SynthOutcomes ==
    { Return(<<"Validated Financial Research Results">>),
      Raise(<<"Error code: ", "524", " ", "401">>),
      Raise(<<"Unauthorized", " after ", "Timeout">>),
      Raise(<<"Timeout">>),
      Raise(<<"boom">>) }

(***************************************************************************)
(* JasperController.run, one action per step between two calls that can    *)
(* raise or suspend                                                        *)
(***************************************************************************)
\* self.logger.log(event_type, payload): the event and the task it is about
NoTask == ""
Event(name, task) == [name |-> name, task |-> task]

\* main() is not running: the controller is driven directly
CliIdle == [pc |-> "idle"]
\* no interleaved invocations
RunsIdle == [heap |-> <<>>]

Init ==
    /\ pc = "plan"
    /\ query \in Queries
    /\ status = "Planning"
    /\ plan = <<>>
    /\ task_results = <<>>
    /\ current_task_index = 0
    /\ idx = 0
    /\ validation = None
    /\ final_answer = None
    /\ report = None
    /\ error = None
    /\ error_source = None
    /\ exc = None
    /\ calls = [plan |-> 0, execute |-> <<>>, fetch |-> 0, validate |-> 0, synthesize |-> 0,
                classified |-> None, confidence |-> None,
                events |-> <<>>, planned_clean |-> FALSE]
    /\ router = RouterIdle
    /\ cli = CliIdle
    /\ runs = RunsIdle

\* variant that calls the planner a second time when the first call raised
PlanRetriesOnce ==
    /\ pc = "plan"
    /\ \E response \in OracleResponses :
         LET r == PlannerPlan(response) IN
         IF r.raises
         THEN /\ pc' = IF calls.plan = 0 THEN "plan" ELSE "workflow_error"
              /\ exc' = IF calls.plan = 0 THEN exc ELSE Some(r.msg)
              /\ calls' = [calls EXCEPT !.plan = @ + 1]
              /\ UNCHANGED plan
         ELSE /\ plan' = r.value
              /\ pc' = "log_plan_created"
              /\ calls' = [calls EXCEPT !.plan = @ + 1,
                                        !.execute = [i \in 1..Len(r.value) |-> 0],
                                        !.planned_clean =
                                           \A i \in 1..Len(r.value) :
                                               /\ r.value[i].status = "pending"
                                               /\ r.value[i].error = None]
              /\ UNCHANGED exc
    /\ UNCHANGED <<cli, runs, router, query, status, task_results, current_task_index, idx, validation,
                   final_answer, report, error, error_source>>

\* state.plan = await self.planner.plan(query)
Plan ==
    /\ pc = "plan"
    /\ \E response \in OracleResponses :
         LET r == PlannerPlan(response) IN
         IF r.raises
         THEN /\ pc' = "workflow_error"
              /\ exc' = Some(r.msg)
              /\ calls' = [calls EXCEPT !.plan = @ + 1]
              /\ UNCHANGED plan
         ELSE /\ plan' = r.value
              /\ pc' = "log_plan_created"
              /\ calls' = [calls EXCEPT !.plan = @ + 1,
                                        !.execute = [i \in 1..Len(r.value) |-> 0],
                                        !.planned_clean =
                                           \A i \in 1..Len(r.value) :
                                               /\ r.value[i].status = "pending"
                                               /\ r.value[i].error = None]
              /\ UNCHANGED exc
    /\ UNCHANGED <<cli, runs, router, query, status, task_results, current_task_index, idx, validation,
                   final_answer, report, error, error_source>>

\* variant that does not emit PLAN_CREATED
LogPlanCreatedSilent ==
    /\ pc = "log_plan_created"
    /\ UNCHANGED calls
    /\ \E l \in LogOutcomes :
         IF l.raises
         THEN pc' = "workflow_error" /\ exc' = Some(l.msg) /\ UNCHANGED status
         ELSE /\ status' = "Executing"
              /\ pc' = IF Len(plan) = 0 THEN "validating" ELSE "task_started"
              /\ UNCHANGED exc
    /\ UNCHANGED <<cli, runs, router, query, plan, task_results, current_task_index, idx, validation,
                   final_answer, report, error, error_source>>

\* log PLAN_CREATED; status = "Executing"; enter the loop
LogPlanCreated ==
    /\ pc = "log_plan_created"
    /\ calls' = [calls EXCEPT !.events = Append(@, Event("PLAN_CREATED", NoTask))]
    /\ \E l \in LogOutcomes :
         IF l.raises
         THEN pc' = "workflow_error" /\ exc' = Some(l.msg) /\ UNCHANGED status
         ELSE /\ status' = "Executing"
              /\ pc' = IF Len(plan) = 0 THEN "validating" ELSE "task_started"
              /\ UNCHANGED exc
    /\ UNCHANGED <<cli, runs, router, query, plan, task_results, current_task_index, idx, validation,
                   final_answer, report, error, error_source>>

\* state.current_task_index = idx; log TASK_STARTED
TaskStarted ==
    /\ pc = "task_started"
    /\ calls' = [calls EXCEPT !.events = Append(@, Event("TASK_STARTED", plan[idx + 1].id))]
    /\ current_task_index' = idx
    /\ \E l \in LogOutcomes :
         IF l.raises
         THEN pc' = "workflow_error" /\ exc' = Some(l.msg)
         ELSE pc' = "execute_begin" /\ UNCHANGED exc
    /\ UNCHANGED <<cli, runs, router, query, status, plan, task_results, idx, validation,
                   final_answer, report, error, error_source>>

\* execute_task entry: task.status = "in_progress"
ExecuteBegin ==
    /\ pc = "execute_begin"
    /\ plan' = [plan EXCEPT ![idx + 1].status = "in_progress"]
    /\ calls' = [calls EXCEPT !.execute[idx + 1] = @ + 1]
    /\ pc' = "execute_body"
    /\ UNCHANGED <<cli, runs, router, query, status, task_results, current_task_index, idx, validation,
                   final_answer, report, error, error_source, exc>>

\* variant whose except clause catches the router's errors only
ExecuteEndCatchesDataErrorsOnly ==
    /\ pc = "execute_body"
    /\ \E outs \in [1..NumProviders -> ProviderOutcomes] :
         LET task == plan[idx + 1]
             r == ExecuteBody(task, outs)
         IN  /\ IF r.raises /\ r.fetches = 0
                THEN /\ pc' = "workflow_error"
                     /\ exc' = Some(r.msg)
                     /\ UNCHANGED <<plan, task_results>>
                ELSE IF r.raises
                THEN /\ plan' = [plan EXCEPT ![idx + 1].status = "failed",
                                             ![idx + 1].error = Some(r.msg)]
                     /\ pc' = "task_completed"
                     /\ UNCHANGED <<task_results, exc>>
                ELSE /\ task_results' = DictSet(task_results, task.id, r.value)
                     /\ plan' = [plan EXCEPT ![idx + 1].status = "completed"]
                     /\ pc' = "task_completed"
                     /\ UNCHANGED exc
             /\ calls' = [calls EXCEPT !.fetch = @ + r.fetches]
    /\ UNCHANGED <<cli, runs, router, query, status, current_task_index, idx, validation,
                   final_answer, report, error, error_source>>

\* variant that stores an entry for a failed task
ExecuteEndRecordsFailure ==
    /\ pc = "execute_body"
    /\ \E outs \in [1..NumProviders -> ProviderOutcomes] :
         LET task == plan[idx + 1]
             r == ExecuteBody(task, outs)
         IN  /\ IF r.raises
                THEN /\ plan' = [plan EXCEPT ![idx + 1].status = "failed",
                                             ![idx + 1].error = Some(r.msg)]
                     /\ task_results' = DictSet(task_results, task.id, PyNone)
                ELSE /\ task_results' = DictSet(task_results, task.id, r.value)
                     /\ plan' = [plan EXCEPT ![idx + 1].status = "completed"]
             /\ calls' = [calls EXCEPT !.fetch = @ + r.fetches]
    /\ pc' = "task_completed"
    /\ UNCHANGED <<cli, runs, router, query, status, current_task_index, idx, validation,
                   final_answer, report, error, error_source, exc>>

\* variant that stores the result under the task's tool name
ExecuteEndKeyedByToolName ==
    /\ pc = "execute_body"
    /\ \E outs \in [1..NumProviders -> ProviderOutcomes] :
         LET task == plan[idx + 1]
             r == ExecuteBody(task, outs)
         IN  /\ IF r.raises
                THEN /\ plan' = [plan EXCEPT ![idx + 1].status = "failed",
                                             ![idx + 1].error = Some(r.msg)]
                     /\ UNCHANGED task_results
                ELSE /\ task_results' = DictSet(task_results, task.tool_name, r.value)
                     /\ plan' = [plan EXCEPT ![idx + 1].status = "completed"]
             /\ calls' = [calls EXCEPT !.fetch = @ + r.fetches]
    /\ pc' = "task_completed"
    /\ UNCHANGED <<cli, runs, router, query, status, current_task_index, idx, validation,
                   final_answer, report, error, error_source, exc>>

\* variant whose handler does not record the message on the task
ExecuteEndFailedWithoutError ==
    /\ pc = "execute_body"
    /\ \E outs \in [1..NumProviders -> ProviderOutcomes] :
         LET task == plan[idx + 1]
             r == ExecuteBody(task, outs)
         IN  /\ IF r.raises
                THEN /\ plan' = [plan EXCEPT ![idx + 1].status = "failed"]
                     /\ UNCHANGED task_results
                ELSE /\ task_results' = DictSet(task_results, task.id, r.value)
                     /\ plan' = [plan EXCEPT ![idx + 1].status = "completed"]
             /\ calls' = [calls EXCEPT !.fetch = @ + r.fetches]
    /\ pc' = "task_completed"
    /\ UNCHANGED <<cli, runs, router, query, status, current_task_index, idx, validation,
                   final_answer, report, error, error_source, exc>>

\* execute_task try/except: router call, then completed or failed
ExecuteEnd ==
    /\ pc = "execute_body"
    /\ \E outs \in [1..NumProviders -> ProviderOutcomes] :
         LET task == plan[idx + 1]
             r == ExecuteBody(task, outs)
         IN  /\ IF r.raises
                THEN /\ plan' = [plan EXCEPT ![idx + 1].status = "failed",
                                             ![idx + 1].error = Some(r.msg)]
                     /\ UNCHANGED task_results
                ELSE /\ task_results' = DictSet(task_results, task.id, r.value)
                     /\ plan' = [plan EXCEPT ![idx + 1].status = "completed"]
             /\ calls' = [calls EXCEPT !.fetch = @ + r.fetches]
    /\ pc' = "task_completed"
    /\ UNCHANGED <<cli, runs, router, query, status, current_task_index, idx, validation,
                   final_answer, report, error, error_source, exc>>

\* variant whose loop stops at the first failed task
TaskCompletedBreakOnFailure ==
    /\ pc = "task_completed"
    /\ calls' = [calls EXCEPT !.events = Append(@, Event("TASK_COMPLETED", plan[idx + 1].id))]
    /\ \E l \in LogOutcomes :
         IF l.raises
         THEN pc' = "workflow_error" /\ exc' = Some(l.msg) /\ UNCHANGED idx
         ELSE /\ idx' = idx + 1
              /\ pc' = IF idx + 1 < Len(plan) /\ plan[idx + 1].status # "failed"
                       THEN "task_started" ELSE "validating"
              /\ UNCHANGED exc
    /\ UNCHANGED <<cli, runs, router, query, status, plan, task_results, current_task_index, validation,
                   final_answer, report, error, error_source>>

\* log TASK_COMPLETED; next iteration or leave the loop
TaskCompleted ==
    /\ pc = "task_completed"
    /\ calls' = [calls EXCEPT !.events = Append(@, Event("TASK_COMPLETED", plan[idx + 1].id))]
    /\ \E l \in LogOutcomes :
         IF l.raises
         THEN pc' = "workflow_error" /\ exc' = Some(l.msg) /\ UNCHANGED idx
         ELSE /\ idx' = idx + 1
              /\ pc' = IF idx + 1 < Len(plan) THEN "task_started" ELSE "validating"
              /\ UNCHANGED exc
    /\ UNCHANGED <<cli, runs, router, query, status, plan, task_results, current_task_index, validation,
                   final_answer, report, error, error_source>>

\* state.status = "Validating"; log VALIDATION_STARTED
Validating ==
    /\ pc = "validating"
    /\ calls' = [calls EXCEPT !.events = Append(@, Event("VALIDATION_STARTED", NoTask))]
    /\ status' = "Validating"
    /\ \E l \in LogOutcomes :
         IF l.raises
         THEN pc' = "workflow_error" /\ exc' = Some(l.msg)
         ELSE pc' = "validate" /\ UNCHANGED exc
    /\ UNCHANGED <<cli, runs, router, query, plan, task_results, current_task_index, idx, validation,
                   final_answer, report, error, error_source>>

\* state.validation = self.validator.validate(state)
Validate ==
    /\ pc = "validate"
    /\ calls' = [calls EXCEPT !.validate = @ + 1]
    /\ LET r == validate(plan, task_results) IN
       IF r.raises
       THEN pc' = "validation_error" /\ exc' = Some(r.msg) /\ UNCHANGED validation
       ELSE pc' = "gate" /\ validation' = Some(r.value) /\ UNCHANGED exc
    /\ UNCHANGED <<cli, runs, router, query, status, plan, task_results, current_task_index, idx,
                   final_answer, report, error, error_source>>

\* variant whose handler stores a rejecting verdict built from the exception
ValidationErrorStoresVerdict ==
    /\ pc = "validation_error"
    /\ calls' = [calls EXCEPT !.events = Append(@, Event("VALIDATION_ERROR", NoTask))]
    /\ \E l \in LogOutcomes :
         IF l.raises
         THEN /\ pc' = "workflow_error" /\ exc' = Some(l.msg)
              /\ UNCHANGED <<status, error, validation>>
         ELSE /\ status' = "Failed"
              /\ error' = Some(<<"Validation error: ">> \o Get(exc))
              /\ validation' = Some([is_valid |-> FALSE, issues |-> <<Get(exc)>>,
                                     confidence |-> InvalidConfidence])
              /\ pc' = "returned"
              /\ exc' = None
    /\ UNCHANGED <<cli, runs, router, query, plan, task_results, current_task_index, idx,
                   final_answer, report, error_source>>

\* except Exception around validate: log VALIDATION_ERROR, fail, return
ValidationError ==
    /\ pc = "validation_error"
    /\ calls' = [calls EXCEPT !.events = Append(@, Event("VALIDATION_ERROR", NoTask))]
    /\ \E l \in LogOutcomes :
         IF l.raises
         THEN pc' = "workflow_error" /\ exc' = Some(l.msg) /\ UNCHANGED <<status, error>>
         ELSE /\ status' = "Failed"
              /\ error' = Some(<<"Validation error: ">> \o Get(exc))
              /\ pc' = "returned"
              /\ exc' = None
    /\ UNCHANGED <<cli, runs, router, query, plan, task_results, current_task_index, idx, validation,
                   final_answer, report, error_source>>

\* variant in which an invalid verdict is logged but does not end the run
ValidationFailedFallsThrough ==
    /\ pc = "gate"
    /\ calls' = [calls EXCEPT !.events = Append(@, Event("VALIDATION_FAILED", NoTask))]
    /\ ~ Get(validation).is_valid
    /\ status' = "Synthesizing"
    /\ \E l \in LogOutcomes :
         IF l.raises
         THEN pc' = "workflow_error" /\ exc' = Some(l.msg)
         ELSE pc' = "synthesize" /\ UNCHANGED exc
    /\ UNCHANGED <<cli, runs, router, query, plan, task_results, current_task_index, idx, validation,
                   final_answer, report, error, error_source>>

\* if not state.validation.is_valid: log VALIDATION_FAILED, fail, return
ValidationFailed ==
    /\ pc = "gate"
    /\ calls' = [calls EXCEPT !.events = Append(@, Event("VALIDATION_FAILED", NoTask))]
    /\ ~ Get(validation).is_valid
    /\ \E l \in LogOutcomes :
         IF l.raises
         THEN pc' = "workflow_error" /\ exc' = Some(l.msg) /\ UNCHANGED status
         ELSE status' = "Failed" /\ pc' = "returned" /\ UNCHANGED exc
    /\ UNCHANGED <<cli, runs, router, query, plan, task_results, current_task_index, idx, validation,
                   final_answer, report, error, error_source>>

\* state.status = "Synthesizing"; log SYNTHESIS_STARTED
Synthesizing ==
    /\ pc = "gate"
    /\ calls' = [calls EXCEPT !.events = Append(@, Event("SYNTHESIS_STARTED", NoTask))]
    /\ Get(validation).is_valid
    /\ status' = "Synthesizing"
    /\ \E l \in LogOutcomes :
         IF l.raises
         THEN pc' = "workflow_error" /\ exc' = Some(l.msg)
         ELSE pc' = "synthesize" /\ UNCHANGED exc
    /\ UNCHANGED <<cli, runs, router, query, plan, task_results, current_task_index, idx, validation,
                   final_answer, report, error, error_source>>

\* state.final_answer = await self.synthesizer.synthesize(state)
Synthesize ==
    /\ pc = "synthesize"
    /\ calls' = [calls EXCEPT !.synthesize = @ + 1]
    /\ \E o \in SynthOutcomes :
         IF o.raises
         THEN pc' = "synthesis_error" /\ exc' = Some(o.msg) /\ UNCHANGED final_answer
         ELSE pc' = "log_final_answer" /\ final_answer' = Some(o.value) /\ UNCHANGED exc
    /\ UNCHANGED <<cli, runs, router, query, status, plan, task_results, current_task_index, idx, validation,
                   report, error, error_source>>

\* log FINAL_ANSWER; state.status = "Completed"
LogFinalAnswer ==
    /\ pc = "log_final_answer"
    /\ calls' = [calls EXCEPT !.events = Append(@, Event("FINAL_ANSWER", NoTask))]
    /\ \E l \in LogOutcomes :
         IF l.raises
         THEN pc' = "synthesis_error" /\ exc' = Some(l.msg) /\ UNCHANGED status
         ELSE status' = "Completed" /\ pc' = "build_report" /\ UNCHANGED exc
    /\ UNCHANGED <<cli, runs, router, query, plan, task_results, current_task_index, idx, validation,
                   final_answer, report, error, error_source>>

\* state.report = self._build_final_report(state)
BuildReport ==
    /\ pc = "build_report"
    /\ LET r == build_final_report(query, plan, task_results, validation, final_answer) IN
       IF r.raises
       THEN pc' = "synthesis_error" /\ exc' = Some(r.msg) /\ UNCHANGED report
       ELSE pc' = "log_report_created" /\ report' = Some(r.value) /\ UNCHANGED exc
    /\ UNCHANGED <<cli, runs, router, query, status, plan, task_results, current_task_index, idx, validation,
                   final_answer, error, error_source, calls>>

\* log REPORT_CREATED; return state
LogReportCreated ==
    /\ pc = "log_report_created"
    /\ calls' = [calls EXCEPT !.events = Append(@, Event("REPORT_CREATED", NoTask))]
    /\ \E l \in LogOutcomes :
         IF l.raises
         THEN pc' = "synthesis_error" /\ exc' = Some(l.msg)
         ELSE pc' = "returned" /\ UNCHANGED exc
    /\ UNCHANGED <<cli, runs, router, query, status, plan, task_results, current_task_index, idx, validation,
                   final_answer, report, error, error_source>>

\* except Exception around the synthesis block: classify, log SYNTHESIS_ERROR, fail, return
SynthesisError ==
    /\ pc = "synthesis_error"
    /\ LET c == Classify(Get(exc)) IN
       /\ error' = Some(c.error)
       /\ error_source' = Some(c.error_source)
    /\ calls' = [calls EXCEPT !.classified = Some(Get(exc)),
                              !.events = Append(@, Event("SYNTHESIS_ERROR", NoTask))]
    /\ \E l \in LogOutcomes :
         IF l.raises
         THEN pc' = "workflow_error" /\ exc' = Some(l.msg) /\ UNCHANGED status
         ELSE status' = "Failed" /\ pc' = "returned" /\ exc' = None
    /\ UNCHANGED <<cli, runs, router, query, plan, task_results, current_task_index, idx, validation,
                   final_answer, report>>

\* variant whose handler resets state.plan
WorkflowErrorClearsPlan ==
    /\ pc = "workflow_error"
    /\ calls' = [calls EXCEPT !.events = Append(@, Event("WORKFLOW_ERROR", NoTask))]
    /\ \E l \in LogOutcomes :
         IF l.raises
         THEN pc' = "raised" /\ exc' = Some(l.msg) /\ UNCHANGED <<status, error>>
         ELSE /\ status' = "Failed"
              /\ error' = Some(Get(exc))
              /\ pc' = "returned"
              /\ exc' = None
    /\ plan' = <<>>
    /\ UNCHANGED <<cli, runs, router, query, task_results, current_task_index, idx, validation,
                   final_answer, report, error_source>>

\* outermost except Exception: log WORKFLOW_ERROR, fail, return
WorkflowError ==
    /\ pc = "workflow_error"
    /\ calls' = [calls EXCEPT !.events = Append(@, Event("WORKFLOW_ERROR", NoTask))]
    /\ \E l \in LogOutcomes :
         IF l.raises
         THEN pc' = "raised" /\ exc' = Some(l.msg) /\ UNCHANGED <<status, error>>
         ELSE /\ status' = "Failed"
              /\ error' = Some(Get(exc))
              /\ pc' = "returned"
              /\ exc' = None
    /\ UNCHANGED <<cli, runs, router, query, plan, task_results, current_task_index, idx, validation,
                   final_answer, report, error_source>>

Next ==
    \/ Plan
    \/ LogPlanCreated
    \/ TaskStarted
    \/ ExecuteBegin
    \/ ExecuteEnd
    \/ TaskCompleted
    \/ Validating
    \/ Validate
    \/ ValidationError
    \/ ValidationFailed
    \/ Synthesizing
    \/ Synthesize
    \/ LogFinalAnswer
    \/ BuildReport
    \/ LogReportCreated
    \/ SynthesisError
    \/ WorkflowError

Spec == Init /\ [][Next]_vars

(***************************************************************************)
(* Properties of JasperController.run                                      *)
(***************************************************************************)
Returned == pc = "returned"
VerdictInvalid == IsSet(validation) /\ ~ Get(validation).is_valid
VerdictValid == IsSet(validation) /\ Get(validation).is_valid
\* the planner was called and raised: the plan keeps its default
PlanningFailed == calls.plan = 1 /\ plan = <<>>
DictKeysOfPlan == [i \in 1..Len(plan) |-> plan[i].id]
PlanIndex(id) == CHOOSE i \in 1..Len(plan) : plan[i].id = id

\* C1: synthesize is invoked only after validate returned a valid verdict; with an
\* invalid verdict synthesize is never called, the Synthesizing and Completed
\* stages are never entered, and the state run returns has status Failed.
C1_ValidationGatesSynthesis ==
    /\ (calls.synthesize > 0 => VerdictValid)
    /\ (VerdictInvalid => calls.synthesize = 0 /\ status \notin {"Synthesizing", "Completed"})
    /\ (Returned /\ VerdictInvalid => status = "Failed")

C1_Witness ==
    Returned /\ VerdictInvalid /\ status = "Failed" /\ calls.synthesize = 0

\* C2: run always ends by returning a state, never by propagating an exception,
\* and the returned status is Completed or Failed.
C2_RunAlwaysReturns ==
    /\ pc # "raised"
    /\ (Returned => status \in {"Completed", "Failed"})

\* C3: every returned state with status Failed has a non-empty error.
C3_FailedHasError ==
    Returned /\ status = "Failed" => TruthyStr(error)

\* C4: a Completed run has every task completed without a recorded error and a
\* non-empty task_results payload for every task id of the plan.
C4_CompletedHasCompleteEvidence ==
    Returned /\ status = "Completed" =>
        \A i \in 1..Len(plan) :
            /\ plan[i].status = "completed"
            /\ plan[i].error = None
            /\ DictHas(task_results, plan[i].id)
            /\ ~ Falsy(DictGet(task_results, plan[i].id))

\* C5: no task is executed twice, and once validation has started every task of
\* the plan has been executed exactly once, whatever the earlier tasks ended as.
C5_EveryTaskExecutedOnce ==
    /\ \A i \in 1..Len(calls.execute) : calls.execute[i] <= 1
    /\ (status = "Validating" \/ calls.validate > 0 =>
            /\ Len(calls.execute) = Len(plan)
            /\ \A i \in 1..Len(plan) : calls.execute[i] = 1)

C5_Witness ==
    /\ calls.validate > 0
    /\ Len(plan) >= 2
    /\ plan[1].status = "failed"
    /\ calls.execute[2] = 1

\* C6: task_results entries are created in plan order; while no task has failed
\* the keys of task_results are exactly the ids of a prefix of the plan, in order.
C6_ResultsInPlanOrder ==
    /\ \A a, b \in 1..Len(task_results) :
           a < b => PlanIndex(task_results[a][1]) < PlanIndex(task_results[b][1])
    /\ ((\A i \in 1..Len(plan) : plan[i].status # "failed") =>
            DictKeys(task_results) = [i \in 1..Len(task_results) |-> plan[i].id])

C6_Witness ==
    /\ Len(plan) >= 2
    /\ \A i \in 1..Len(plan) : plan[i].status = "completed"
    /\ DictKeys(task_results) = [i \in 1..Len(plan) |-> plan[i].id]

\* C7: status only moves forward along Planning, Executing, Validating and then
\* Synthesizing, Completed or Failed; Completed and Failed are never left.
StageRank(s) ==
    CASE s = "Planning" -> 0
      [] s = "Executing" -> 1
      [] s = "Validating" -> 2
      [] s = "Synthesizing" -> 3
      [] OTHER -> 4

StatusStepAllowed(s, t) ==
    \/ t = s
    \/ s \notin {"Completed", "Failed"} /\ t = "Failed"
    \/ s = "Synthesizing" /\ t = "Completed"
    \/ t \in {"Executing", "Validating", "Synthesizing"} /\ StageRank(s) < StageRank(t)

C7_StatusMonotonic == [][StatusStepAllowed(status, status')]_vars

\* C8: in a returned state final_answer is set iff status is Completed, and
\* report is set iff status is Completed.
C8_AnswerAndReportIffCompleted ==
    Returned =>
        /\ (IsSet(final_answer) <=> status = "Completed")
        /\ (IsSet(report) <=> status = "Completed")

\* C9: a run whose plan is empty after planning never enters Synthesizing or
\* Completed, never calls synthesize, and returns with status Failed.
C9_EmptyPlanFails ==
    pc # "plan" /\ plan = <<>> =>
        /\ status \notin {"Synthesizing", "Completed"}
        /\ calls.synthesize = 0
        /\ (Returned => status = "Failed")

C9_Witness ==
    Returned /\ plan = <<>> /\ calls.plan = 1 /\ status = "Failed"

\* C10: when the planner raises the run returns Failed with a Query/Planning-kind
\* error, no other collaborator has been invoked and nothing but the query is kept.
C10_PlanningFailureIsQueryError ==
    Returned /\ PlanningFailed =>
        /\ status = "Failed"
        /\ TruthyStr(error)
        /\ error_source = Some("query")
        /\ calls.execute = <<>> /\ calls.validate = 0 /\ calls.synthesize = 0
        /\ plan = <<>> /\ task_results = <<>>
        /\ validation = None /\ final_answer = None /\ report = None

\* the validator was called and raised: no verdict was stored
ValidatorRaised == calls.validate = 1 /\ validation = None
\* the run passed the gate (status was set to Synthesizing) and ended Failed
FailedAfterSynthesizing == Returned /\ status = "Failed" /\ VerdictValid
LLMSources == {"llm_service", "llm_auth", "llm_timeout", "llm_unknown"}

\* C11: when the validator raises, the returned state is Failed, carries an error
\* and an error_source identifying validation, has no verdict, and synthesize
\* was never invoked.
C11_ValidatorExceptionIsValidationError ==
    Returned /\ ValidatorRaised =>
        /\ status = "Failed"
        /\ TruthyStr(error)
        /\ error_source = Some("validation")
        /\ validation = None
        /\ calls.synthesize = 0

\* C12: every run that entered Synthesizing and returned Failed carries an
\* error_source among llm_service, llm_auth, llm_timeout, llm_unknown, and its
\* verdict is valid.
C12_SynthesisFailureHasSource ==
    FailedAfterSynthesizing =>
        /\ IsSet(error_source)
        /\ Get(error_source) \in LLMSources
        /\ Get(validation).is_valid

(***************************************************************************)
(* The synthesis handler on every failure message: run() stands in its     *)
(* synthesis block on a valid one-task state when an exception arrives     *)
(***************************************************************************)
MaxMsgLen == 2

MessageTokens ==
    { "524", "Provider Returned Error", "provider returned error", "401",
      "Unauthorized", "unauthorized", "Timeout", "timeout", "boom" }
FailureMessages == SeqsUpTo(MessageTokens, MaxMsgLen)

ValidOneTaskPlan ==
    << [id |-> TaskId(1), description |-> <<"Fetch ", "Income Statement">>,
        tool_name |-> "income_statement", ticker |-> StrTicker("aapl"),
        symbol |-> NoTicker, status |-> "completed", error |-> None] >>
ValidOneTaskResults == << <<TaskId(1), Dict(1, IntRev(100))>> >>

ClassifyInit ==
    /\ pc = "synthesis_error"
    /\ query \in Queries
    /\ status = "Synthesizing"
    /\ plan = ValidOneTaskPlan
    /\ task_results = ValidOneTaskResults
    /\ current_task_index = 0
    /\ idx = 1
    /\ validation = Some(validate(ValidOneTaskPlan, ValidOneTaskResults).value)
    /\ final_answer = None
    /\ report = None
    /\ error = None
    /\ error_source = None
    /\ \E m \in FailureMessages : exc = Some(m)
    /\ calls = [plan |-> 1, execute |-> <<1>>, fetch |-> 1, validate |-> 1, synthesize |-> 1,
                classified |-> None, confidence |-> None,
                events |-> <<>>, planned_clean |-> FALSE]
    /\ router = RouterIdle
    /\ cli = CliIdle
    /\ runs = RunsIdle

ClassifyNext == SynthesisError \/ WorkflowError

SpecClassify == ClassifyInit /\ [][ClassifyNext]_vars

HasSignature(m, sig) == \E i \in 1..Len(m) : LowerTok(m[i]) = sig
ServiceSignature(m) == HasSignature(m, "524") \/ HasSignature(m, "provider returned error")
AuthSignature(m) == HasSignature(m, "401") \/ HasSignature(m, "unauthorized")
TimeoutSignature(m) == HasSignature(m, "timeout")

\* C13: the handler assigns exactly one source to the message it classified: llm_service
\* when a service signature is present, whatever else is; else llm_auth when an
\* authorization signature is present; else llm_timeout on 'timeout'; else llm_unknown.
C13_ClassificationPriority ==
    IsSet(calls.classified) =>
        LET m == Get(calls.classified) IN
        /\ IsSet(error_source)
        /\ Get(error_source) \in LLMSources
        /\ Get(error_source) =
             (IF ServiceSignature(m) THEN "llm_service"
              ELSE IF AuthSignature(m) THEN "llm_auth"
              ELSE IF TimeoutSignature(m) THEN "llm_timeout"
              ELSE "llm_unknown")

C13_Witness ==
    /\ Returned
    /\ IsSet(calls.classified)
    /\ ServiceSignature(Get(calls.classified))
    /\ AuthSignature(Get(calls.classified))
    /\ error_source = Some("llm_service")

(***************************************************************************)
(* One call of FinancialDataRouter.fetch_income_statement, one loop        *)
(* iteration per step; outs[i] is what provider i does when it is asked     *)
(***************************************************************************)
MaxProviders == 3

RouterTickers == { StrTicker("aapl"), StrTicker("msft") }
RouterOutcomes == ProviderOutcomes \cup { Return(List(<<Dict(1, IntRev(100))>>)) }

\* the controller, constructed and at the start of a run, while the router is called directly
ControllerAtStart ==
    /\ pc = "plan"
    /\ query \in Queries
    /\ status = "Planning"
    /\ plan = <<>>
    /\ task_results = <<>>
    /\ current_task_index = 0
    /\ idx = 0
    /\ validation = None
    /\ final_answer = None
    /\ report = None
    /\ error = None
    /\ error_source = None
    /\ exc = None
    /\ calls = [plan |-> 0, execute |-> <<>>, fetch |-> 0, validate |-> 0, synthesize |-> 0,
                classified |-> None, confidence |-> None,
                events |-> <<>>, planned_clean |-> FALSE]

\* errors = []; for provider in self.providers:
RouterInit ==
    /\ ControllerAtStart
    /\ cli = CliIdle
    /\ runs = RunsIdle
    /\ \E t \in RouterTickers, outs \in SeqsUpTo(RouterOutcomes, MaxProviders) :
         router = [pc |-> "loop", ticker |-> t, outs |-> outs, i |-> 1, errors |-> <<>>,
                   invoked |-> <<>>, result |-> None, error |-> None]

\* variant that keeps asking the remaining providers after a valid response
RouterTryNoShortCircuit ==
    /\ router.pc = "loop"
    /\ router.i <= Len(router.outs)
    /\ LET i == router.i
           o == router.outs[i]
           called == [router EXCEPT !.invoked = Append(@, i)]
       IN  router' =
             IF o.raises
             THEN [called EXCEPT !.i = i + 1,
                                 !.errors = Append(@, <<ProviderName(i), ": ">> \o o.msg)]
             ELSE IF o.value.type = "none"
             THEN [called EXCEPT !.i = i + 1,
                                 !.errors = Append(@, <<ProviderName(i), ": returned None">>)]
             ELSE IF o.value.type \in {"list", "dict"} /\ o.value.len = 0
             THEN [called EXCEPT !.i = i + 1,
                                 !.errors = Append(@, <<ProviderName(i), ": returned empty data">>)]
             ELSE [called EXCEPT !.i = i + 1, !.result = Some(o.value),
                                 !.pc = IF i = Len(router.outs) THEN "returned" ELSE "loop"]
    /\ UNCHANGED <<cli, runs, runvars>>

\* variant that rejects None only
RouterTryAcceptsEmpty ==
    /\ router.pc = "loop"
    /\ router.i <= Len(router.outs)
    /\ LET i == router.i
           o == router.outs[i]
           called == [router EXCEPT !.invoked = Append(@, i)]
       IN  router' =
             IF o.raises
             THEN [called EXCEPT !.i = i + 1,
                                 !.errors = Append(@, <<ProviderName(i), ": ">> \o o.msg)]
             ELSE IF o.value.type = "none"
             THEN [called EXCEPT !.i = i + 1,
                                 !.errors = Append(@, <<ProviderName(i), ": returned None">>)]
             ELSE [called EXCEPT !.pc = "returned", !.result = Some(o.value)]
    /\ UNCHANGED <<cli, runs, runvars>>

\* variant that records no diagnostic for a None response
RouterTrySilentNone ==
    /\ router.pc = "loop"
    /\ router.i <= Len(router.outs)
    /\ LET i == router.i
           o == router.outs[i]
           called == [router EXCEPT !.invoked = Append(@, i)]
       IN  router' =
             IF o.raises
             THEN [called EXCEPT !.i = i + 1,
                                 !.errors = Append(@, <<ProviderName(i), ": ">> \o o.msg)]
             ELSE IF o.value.type = "none"
             THEN [called EXCEPT !.i = i + 1]
             ELSE IF o.value.type \in {"list", "dict"} /\ o.value.len = 0
             THEN [called EXCEPT !.i = i + 1,
                                 !.errors = Append(@, <<ProviderName(i), ": returned empty data">>)]
             ELSE [called EXCEPT !.pc = "returned", !.result = Some(o.value)]
    /\ UNCHANGED <<cli, runs, runvars>>

\* variant that asks a provider that raised a second time
RouterTryRetry ==
    /\ router.pc = "loop"
    /\ router.i <= Len(router.outs)
    /\ LET i == router.i
           o == router.outs[i]
           called == [router EXCEPT !.invoked = Append(@, i)]
       IN  router' =
             IF o.raises
             THEN IF \E k \in 1..Len(router.invoked) : router.invoked[k] = i
                  THEN [called EXCEPT !.i = i + 1,
                                      !.errors = Append(@, <<ProviderName(i), ": ">> \o o.msg)]
                  ELSE called
             ELSE IF o.value.type = "none"
             THEN [called EXCEPT !.i = i + 1,
                                 !.errors = Append(@, <<ProviderName(i), ": returned None">>)]
             ELSE IF o.value.type \in {"list", "dict"} /\ o.value.len = 0
             THEN [called EXCEPT !.i = i + 1,
                                 !.errors = Append(@, <<ProviderName(i), ": returned empty data">>)]
             ELSE [called EXCEPT !.pc = "returned", !.result = Some(o.value)]
    /\ UNCHANGED <<cli, runs, runvars>>

\* one iteration: result = await provider.income_statement(ticker), reject or return
RouterTry ==
    /\ router.pc = "loop"
    /\ router.i <= Len(router.outs)
    /\ LET i == router.i
           o == router.outs[i]
           called == [router EXCEPT !.invoked = Append(@, i)]
       IN  router' =
             IF o.raises
             THEN [called EXCEPT !.i = i + 1,
                                 !.errors = Append(@, <<ProviderName(i), ": ">> \o o.msg)]
             ELSE IF o.value.type = "none"
             THEN [called EXCEPT !.i = i + 1,
                                 !.errors = Append(@, <<ProviderName(i), ": returned None">>)]
             ELSE IF o.value.type \in {"list", "dict"} /\ o.value.len = 0
             THEN [called EXCEPT !.i = i + 1,
                                 !.errors = Append(@, <<ProviderName(i), ": returned empty data">>)]
             ELSE [called EXCEPT !.pc = "returned", !.result = Some(o.value)]
    /\ UNCHANGED <<cli, runs, runvars>>

\* after the loop: raise DataProviderError(...)
RouterExhausted ==
    /\ router.pc = "loop"
    /\ router.i > Len(router.outs)
    /\ router' = [router EXCEPT !.pc = "raised",
                                !.error = Some(DataProviderError(router.ticker, router.errors))]
    /\ UNCHANGED <<cli, runs, runvars>>

RouterNext == RouterTry \/ RouterExhausted

SpecRouter == RouterInit /\ [][RouterNext]_vars

\* what the router treats as a failure of a provider
ProviderFailed(o) ==
    \/ o.raises
    \/ o.value.type = "none"
    \/ (o.value.type \in {"list", "dict"} /\ o.value.len = 0)

\* C14: the router returns exactly the payload of the first provider, in list order,
\* whose result is not rejected; no provider after that one is invoked; and it
\* raises only when no provider has such a result.
C14_FirstValidShortCircuits ==
    /\ (router.pc = "returned" =>
            \E k \in 1..Len(router.outs) :
                /\ ~ ProviderFailed(router.outs[k])
                /\ \A j \in 1..(k - 1) : ProviderFailed(router.outs[j])
                /\ router.result = Some(router.outs[k].value)
                /\ router.invoked = [j \in 1..k |-> j])
    /\ (router.pc = "raised" =>
            \A k \in 1..Len(router.outs) : ProviderFailed(router.outs[k]))

C14_Witness ==
    /\ router.pc = "returned"
    /\ Len(router.outs) = 3
    /\ router.outs[1].raises
    /\ router.outs[2] = Return(Dict(1, IntRev(100)))
    /\ router.result = Some(Dict(1, IntRev(100)))
    /\ router.invoked = <<1, 2>>

\* C15: the router never returns None, an empty list or an empty mapping; with a
\* single provider that returns None or [] the call raises DataProviderError.
C15_EmptyResponsesRejected ==
    /\ (router.pc = "returned" =>
            /\ IsSet(router.result)
            /\ Get(router.result).type # "none"
            /\ ~ (Get(router.result).type \in {"list", "dict"} /\ Get(router.result).len = 0))
    /\ (/\ router.pc \in {"returned", "raised"}
        /\ Len(router.outs) = 1
        /\ router.outs[1] \in {Return(PyNone), Return(List(<<>>))}
        => router.pc = "raised" /\ IsSet(router.error) /\ router.result = None)

C15_Witness ==
    /\ router.pc = "raised"
    /\ router.outs = <<Return(List(<<>>))>>
    /\ IsSet(router.error)

\* number of tokens of s equal to tok
RECURSIVE Count(_, _)
Count(s, tok) ==
    IF s = <<>> THEN 0 ELSE (IF s[1] = tok THEN 1 ELSE 0) + Count(Tail(s), tok)

\* where tok stands in s
Position(s, tok) == CHOOSE k \in 1..Len(s) : s[k] = tok

\* C16: when all N providers fail or are rejected the router raises one error whose
\* message names the ticker and whose debug detail holds exactly N diagnostics,
\* the i-th naming provider i, separated by semicolons in the order tried.
C16_AggregatedDiagnostics ==
    router.pc = "raised" =>
        LET e == Get(router.error)
            n == Len(router.outs)
            detail == e.debug_details
        IN  /\ Contains(e.msg, router.ticker.val)
            /\ Len(router.errors) = n
            /\ \A i \in 1..n : router.errors[i][1] = ProviderName(i)
            /\ Count(detail, "; ") = (IF n = 0 THEN 0 ELSE n - 1)
            /\ \A i \in 1..n : Count(detail, ProviderName(i)) = 1
            /\ \A i \in 1..n : \A j \in 1..n :
                   i < j => Position(detail, ProviderName(i)) < Position(detail, ProviderName(j))

C16_Witness ==
    /\ router.pc = "raised"
    /\ Len(router.outs) = 3
    /\ router.outs[1].raises
    /\ router.outs[2] = Return(PyNone)
    /\ router.outs[3] = Return(Dict(0, Absent))

\* C17: providers are asked strictly in list order and each at most once: the k-th
\* invocation is of provider k, and it happens only after providers 1..k-1 have
\* each failed or been rejected.
C17_InOrderAtMostOnce ==
    \A k \in 1..Len(router.invoked) :
        /\ router.invoked[k] = k
        /\ \A j \in 1..(k - 1) : ProviderFailed(router.outs[j])

C17_Witness ==
    /\ router.invoked = <<1, 2, 3>>
    /\ router.outs[1].raises
    /\ router.outs[2].raises

(***************************************************************************)
(* Executor.execute_task                                                   *)
(***************************************************************************)
\* the message of the failure that execute_task meets for task t, when it meets one
ExpectedFailure(t) ==
    IF ~ Contains(Lower(t.description), "income statement")
    THEN <<"Unknown task description: ">> \o t.description
    ELSE IF TickerFalsy(t.ticker)
    THEN <<"No ticker found for task: ">> \o t.description
    ELSE DataProviderError(t.ticker, <<>>).msg

\* C18: execute_task never raises to its caller and leaves the task completed or
\* failed, never pending or in_progress, whatever the task and the router do.
C18_ExecuteTaskNeverRaises ==
    [][/\ (pc = "execute_begin" => pc' = "execute_body" /\ exc' = exc)
       /\ (pc = "execute_body" =>
              /\ pc' = "task_completed"
              /\ exc' = exc
              /\ plan'[idx + 1].status \in {"completed", "failed"})]_vars

C18_Witness ==
    /\ pc = "task_completed"
    /\ exc = None
    /\ calls.fetch = 1
    /\ plan[idx + 1].status = "failed"
    /\ plan[idx + 1].error = Some(DataProviderError(plan[idx + 1].ticker, <<>>).msg)

\* C19: a failing execute_task sets the task's status to failed and its error to the
\* failure's message and changes nothing else: task_results keeps its entries, no
\* other task and no other field of the run changes; a missing ticker is such a
\* failure and the router is not invoked for it.
C19_FailureTouchesOnlyTheTask ==
    [][pc = "execute_body" =>
          LET t == plan[idx + 1]
              after == plan'[idx + 1]
          IN  /\ (after.status # "completed" =>
                     /\ after = [t EXCEPT !.status = "failed",
                                          !.error = Some(ExpectedFailure(t))]
                     /\ task_results' = task_results
                     /\ \A j \in 1..Len(plan) : j # idx + 1 => plan'[j] = plan[j]
                     /\ Len(plan') = Len(plan)
                     /\ UNCHANGED <<query, status, validation, final_answer, report,
                                    error, error_source, exc>>)
              /\ (Contains(Lower(t.description), "income statement") /\ TickerFalsy(t.ticker) =>
                     /\ after.status = "failed"
                     /\ calls'.fetch = calls.fetch)
              /\ (~ Contains(Lower(t.description), "income statement") =>
                     /\ after.status = "failed"
                     /\ calls'.fetch = calls.fetch)]_vars

C19_Witness ==
    /\ pc = "task_completed"
    /\ idx = 1
    /\ plan[1].status = "completed"
    /\ DictKeys(task_results) = <<plan[1].id>>
    /\ plan[2].status = "failed"
    /\ plan[2].error = Some(<<"No ticker found for task: ">> \o plan[2].description)
    /\ calls.fetch = 1

(***************************************************************************)
(* validator.validate called directly on constructed states                *)
(***************************************************************************)
MaxValidateCalls == 2

\* status and error of a task of a constructed state
TaskConditions ==
    { [status |-> "pending", error |-> None],
      [status |-> "in_progress", error |-> None],
      [status |-> "completed", error |-> None],
      [status |-> "completed", error |-> Some(<<"stale">>)],
      [status |-> "failed", error |-> Some(<<"HTTP 500">>)],
      [status |-> "failed", error |-> None] }

\* what task_results may hold for a task
ValidatePayloads ==
    { PyNone, Dict(0, Absent), List(<<>>),
      Dict(1, Absent), Dict(1, IntRev(100)), Dict(1, StrRev(0 - 5)), Dict(1, BadRev),
      List(<<Dict(1, IntRev(100)), Dict(1, IntRev(0 - 5))>>), Dict(1, HugeRev) }

\* one entry per task, or no entry for it
ResultChoices == { None } \cup { Some(p) : p \in ValidatePayloads }

ConstructedTask(i, c) ==
    [id |-> TaskId(i), description |-> <<"Fetch income statement #", ToString(i)>>,
     tool_name |-> "income_statement", ticker |-> StrTicker("aapl"), symbol |-> NoTicker,
     status |-> c.status, error |-> c.error]

RECURSIVE ConstructedResults(_, _)
ConstructedResults(choice, i) ==
    IF i > Len(choice) THEN <<>>
    ELSE (IF IsSet(choice[i]) THEN << <<TaskId(i), Get(choice[i])>> >> ELSE <<>>)
         \o ConstructedResults(choice, i + 1)

ValidateInit ==
    /\ pc = "direct_validate"
    /\ query \in Queries
    /\ status = "Validating"
    /\ \E n \in 0..MaxTasks :
         \E cs \in [1..n -> TaskConditions], choice \in [1..n -> ResultChoices] :
            /\ plan = [i \in 1..n |-> ConstructedTask(i, cs[i])]
            /\ task_results = ConstructedResults(choice, 1)
            /\ current_task_index = n
            /\ idx = n
    /\ validation = None
    /\ final_answer = None
    /\ report = None
    /\ error = None
    /\ error_source = None
    /\ exc = None
    /\ calls = [plan |-> 0, execute |-> <<>>, fetch |-> 0, validate |-> 0, synthesize |-> 0,
                classified |-> None, confidence |-> None,
                events |-> <<>>, planned_clean |-> FALSE]
    /\ router = RouterIdle
    /\ cli = CliIdle
    /\ runs = RunsIdle

\* variant whose issue list outlives the call and keeps growing
ValidateDirectAccumulates ==
    /\ pc = "direct_validate"
    /\ calls.validate < MaxValidateCalls
    /\ calls' = [calls EXCEPT !.validate = @ + 1]
    /\ LET r == validate(plan, task_results) IN
       IF r.raises
       THEN exc' = Some(r.msg) /\ UNCHANGED validation
       ELSE /\ validation' =
                 Some([r.value EXCEPT !.issues =
                          (IF IsSet(validation) THEN Get(validation).issues ELSE <<>>) \o @])
            /\ UNCHANGED exc
    /\ UNCHANGED <<cli, runs, router, pc, query, status, plan, task_results, current_task_index, idx,
                   final_answer, report, error, error_source>>

\* result = validator.validate(state), called by a test or a caller other than run
ValidateDirect ==
    /\ pc = "direct_validate"
    /\ calls.validate < MaxValidateCalls
    /\ calls' = [calls EXCEPT !.validate = @ + 1]
    /\ LET r == validate(plan, task_results) IN
       IF r.raises
       THEN exc' = Some(r.msg) /\ UNCHANGED validation
       ELSE validation' = Some(r.value) /\ UNCHANGED exc
    /\ UNCHANGED <<cli, runs, router, pc, query, status, plan, task_results, current_task_index, idx,
                   final_answer, report, error, error_source>>

ValidateNext == ValidateDirect

SpecValidate == ValidateInit /\ [][ValidateNext]_vars

\* the verdict of a direct call, once validate has returned one
Verdict == Get(validation)
HasVerdict == pc = "direct_validate" /\ IsSet(validation)

\* positions of the issues of the verdict that are equal to issue
IssuePositions(issue) == { k \in 1..Len(Verdict.issues) : Verdict.issues[k] = issue }
\* positions of the issues of the verdict that start with prefix
IssuesStarting(prefix) == { k \in 1..Len(Verdict.issues) : Verdict.issues[k][1] = prefix }

\* C20: the verdict holds one 'Incomplete task' issue for each task of the plan whose
\* status is not completed, naming that task, and no other such issue; any such
\* task makes the verdict invalid.
C20_IncompleteTasksRejected ==
    HasVerdict =>
        LET open == { i \in 1..Len(plan) : plan[i].status # "completed" }
        IN  /\ \A i \in open :
                   Cardinality(IssuePositions(<<"Incomplete task: ">> \o plan[i].description)) = 1
            /\ Cardinality(IssuesStarting("Incomplete task: ")) = Cardinality(open)
            /\ (open # {} => ~ Verdict.is_valid)

C20_Witness ==
    /\ HasVerdict
    /\ Len(plan) = 1
    /\ plan[1].status = "pending"
    /\ task_results = <<>>
    /\ ~ Verdict.is_valid
    /\ Verdict.issues = << <<"Incomplete task: ">> \o plan[1].description >>

\* tasks of the plan that carry an error
TasksWithError == { i \in 1..Len(plan) : IsSet(plan[i].error) }

\* C21: a state in which some task carries an error is never valid, also when that
\* task is completed and its result is non-empty, and the verdict holds at least
\* one issue per such task.
C21_TaskErrorsRejected ==
    HasVerdict /\ TasksWithError # {} =>
        /\ ~ Verdict.is_valid
        /\ Len(Verdict.issues) >= Cardinality(TasksWithError)

\* entries of task_results that are None, an empty list or an empty mapping
EmptyEntries ==
    { k \in 1..Len(task_results) :
        \/ task_results[k][2].type = "none"
        \/ (task_results[k][2].type \in {"list", "dict"} /\ task_results[k][2].len = 0) }

\* C22: the verdict holds exactly one 'Empty data' issue for each task id whose entry
\* is None or a zero-length list or mapping, none for the other entries, and any
\* such entry makes the verdict invalid even when every task is completed.
C22_EmptyEntriesRejected ==
    HasVerdict =>
        /\ \A k \in 1..Len(task_results) :
               Cardinality(IssuePositions(<<"Empty data for task ", task_results[k][1]>>))
                   = (IF k \in EmptyEntries THEN 1 ELSE 0)
        /\ Cardinality(IssuesStarting("Empty data for task ")) = Cardinality(EmptyEntries)
        /\ (EmptyEntries # {} => ~ Verdict.is_valid)

C22_Witness ==
    /\ HasVerdict
    /\ \A i \in 1..Len(plan) : plan[i].status = "completed" /\ plan[i].error = None
    /\ Len(plan) = 2
    /\ task_results = << <<TaskId(1), Dict(1, IntRev(100))>>, <<TaskId(2), Dict(0, Absent)>> >>
    /\ Verdict.issues = << <<"Empty data for task ", TaskId(2)>> >>
    /\ ~ Verdict.is_valid

\* a record whose revenue field coerces to a negative number
NegativeRecord(r) == r.type = "dict" /\ r.rev.k \in {"int", "numstr"} /\ r.rev.n < 0
\* a payload that is such a record or a sequence holding one
NegativePayload(p) ==
    \/ NegativeRecord(p)
    \/ (p.type = "list" /\ \E k \in 1..Len(p.items) : NegativeRecord(p.items[k]))

CleanState ==
    /\ \A i \in 1..Len(plan) : plan[i].status = "completed"
    /\ EmptyEntries = {}
    /\ \A k \in 1..Len(task_results) : ~ NegativePayload(task_results[k][2])

\* C24: on a state whose tasks are all completed, whose entries are all non-empty and
\* that holds no negative revenue, a call of validate returns a verdict, and that
\* verdict is valid, has no issues and has the confidence 0.9.
C24_CleanStateIsValid ==
    pc = "direct_validate" /\ calls.validate >= 1 /\ CleanState =>
        /\ IsSet(validation)
        /\ Verdict.is_valid
        /\ Verdict.issues = <<>>
        /\ Verdict.confidence = ValidConfidence

\* C25: an invalid verdict carries the confidence 0.0.
C25_InvalidConfidenceIsZero ==
    HasVerdict /\ ~ Verdict.is_valid => Verdict.confidence = 0

MaxConfTasks == 6

\* round(a / b, 2) of a value given in hundredths as the fraction a / b
RoundDiv(a, b) == (2 * a + b) \div (2 * b)

\* number of tasks for which `if task.error` holds
RECURSIVE ErrorCount(_)
ErrorCount(p) ==
    IF p = <<>> THEN 0 ELSE (IF TruthyStr(p[1].error) THEN 1 ELSE 0) + ErrorCount(Tail(p))

Max(a, b) == IF a >= b THEN a ELSE b

\* variant without quality = max(0, quality)
compute_confidenceNoFloor(p, results) ==
    IF p = <<>>
    THEN [data_coverage |-> 0, data_quality |-> 0, inference_strength |-> 0, overall |-> 0]
    ELSE LET n == Len(p)
             k == Len(results)
             quality == 100 - 20 * ErrorCount(p)
             inference == IF 10 * k > 8 * n THEN 80 ELSE 50
         IN  [data_coverage |-> RoundDiv(100 * k, n),
              data_quality |-> quality,
              inference_strength |-> inference,
              overall |-> RoundDiv(100 * k + n * (quality + inference), 3 * n)]

\* variant whose empty-plan guard zeroes the coverage only
compute_confidenceCoverageGuardOnly(p, results) ==
    LET n == Len(p)
        k == Len(results)
        quality == Max(0, 100 - 20 * ErrorCount(p))
        coverage == IF n = 0 THEN 0 ELSE RoundDiv(100 * k, n)
        inference == IF n # 0 /\ 10 * k > 8 * n THEN 80 ELSE 50
    IN  [data_coverage |-> coverage,
         data_quality |-> quality,
         inference_strength |-> inference,
         overall |-> IF n = 0 THEN RoundDiv(quality + inference, 3)
                     ELSE RoundDiv(100 * k + n * (quality + inference), 3 * n)]

\* coverage k/n, quality and inference in hundredths; overall is the rounded mean
compute_confidence(p, results) ==
    IF p = <<>>
    THEN [data_coverage |-> 0, data_quality |-> 0, inference_strength |-> 0, overall |-> 0]
    ELSE LET n == Len(p)
             k == Len(results)
             quality == Max(0, 100 - 20 * ErrorCount(p))
             inference == IF 10 * k > 8 * n THEN 80 ELSE 50
         IN  [data_coverage |-> RoundDiv(100 * k, n),
              data_quality |-> quality,
              inference_strength |-> inference,
              overall |-> RoundDiv(100 * k + n * (quality + inference), 3 * n)]

\* what the execution loop leaves of one task: completed with its result stored,
\* failed with its error and no result, or not executed yet
TaskShapes ==
    { [status |-> "completed", error |-> None, stored |-> TRUE],
      [status |-> "completed", error |-> Some(<<"stale">>), stored |-> TRUE],
      [status |-> "failed", error |-> Some(<<"HTTP 500">>), stored |-> FALSE],
      [status |-> "pending", error |-> None, stored |-> FALSE],
      [status |-> "pending", error |-> Some(<<"stale">>), stored |-> FALSE] }

\* results under ids of no task, for a state whose plan is empty
OrphanResults ==
    { <<>>,
      << <<"x1", Dict(1, IntRev(100))>> >>,
      << <<"x1", Dict(1, IntRev(100))>>, <<"x2", PyNone>> >> }

\* a state handed to compute_confidence directly
ConfidenceInit ==
    /\ pc = "direct_confidence"
    /\ query \in Queries
    /\ status = "Synthesizing"
    /\ \E n \in 0..MaxConfTasks :
         \E shapes \in [1..n -> TaskShapes] :
            /\ plan = [i \in 1..n |-> ConstructedTask(i, shapes[i])]
            /\ \/ /\ n > 0
                  /\ task_results =
                       ConstructedResults([i \in 1..n |-> IF shapes[i].stored
                                                          THEN Some(Dict(1, IntRev(100)))
                                                          ELSE None], 1)
               \/ /\ n = 0
                  /\ task_results \in OrphanResults
            /\ current_task_index = n
            /\ idx = n
    /\ validation = None
    /\ final_answer = None
    /\ report = None
    /\ error = None
    /\ error_source = None
    /\ exc = None
    /\ calls = [plan |-> 0, execute |-> <<>>, fetch |-> 0, validate |-> 0, synthesize |-> 0,
                classified |-> None, confidence |-> None,
                events |-> <<>>, planned_clean |-> FALSE]
    /\ router = RouterIdle
    /\ cli = CliIdle
    /\ runs = RunsIdle

\* confidence = compute_confidence(state)
ComputeConfidence ==
    /\ pc = "direct_confidence"
    /\ calls.confidence = None
    /\ calls' = [calls EXCEPT !.confidence = Some(compute_confidence(plan, task_results))]
    /\ UNCHANGED <<cli, runs, router, pc, query, status, plan, task_results, current_task_index, idx,
                   validation, final_answer, report, error, error_source, exc>>

ConfidenceNext == Next \/ ComputeConfidence

\* the states of a run together with the states handed to compute_confidence
SpecConfidence == (Init \/ ConfidenceInit) /\ [][ConfidenceNext]_vars

InUnit(b) ==
    /\ b.data_coverage \in 0..100
    /\ b.data_quality \in 0..100
    /\ b.inference_strength \in 0..100
    /\ b.overall \in 0..100

\* C27: in every state of a run, and in every state of that shape with a longer
\* plan, the four values of the confidence breakdown computed from it lie in
\* [0,1]; the coverage never exceeds 1 and the quality never falls below 0.
C27_BreakdownInUnitInterval ==
    /\ InUnit(compute_confidence(plan, task_results))
    /\ (IsSet(calls.confidence) => InUnit(Get(calls.confidence)))
    /\ (plan # <<>> => Len(task_results) <= Len(plan))

C27_Witness ==
    /\ pc = "direct_confidence"
    /\ IsSet(calls.confidence)
    /\ Len(plan) = MaxConfTasks
    /\ ErrorCount(plan) = MaxConfTasks
    /\ Len(task_results) = 3
    /\ Get(calls.confidence) =
         [data_coverage |-> 50, data_quality |-> 0, inference_strength |-> 50, overall |-> 33]

\* C28: for a state whose plan is empty the breakdown is zero in all four values,
\* whatever task_results holds.
C28_EmptyPlanBreakdownIsZero ==
    /\ (plan = <<>> =>
           compute_confidence(plan, task_results) =
              [data_coverage |-> 0, data_quality |-> 0, inference_strength |-> 0, overall |-> 0])
    /\ (IsSet(calls.confidence) /\ plan = <<>> =>
           Get(calls.confidence) =
              [data_coverage |-> 0, data_quality |-> 0, inference_strength |-> 0, overall |-> 0])

C28_Witness ==
    /\ pc = "direct_confidence"
    /\ plan = <<>>
    /\ Len(task_results) = 2
    /\ calls.confidence =
         Some([data_coverage |-> 0, data_quality |-> 0, inference_strength |-> 0, overall |-> 0])

\* C29: in every reachable state of a run every key of task_results is the id of a
\* task of the plan.
C29_ResultKeysArePlanIds ==
    \A k \in 1..Len(task_results) :
        \E i \in 1..Len(plan) : plan[i].id = task_results[k][1]

C29_Witness ==
    /\ pc = "returned"
    /\ Len(plan) = 2
    /\ plan[1].status = "failed"
    /\ DictKeys(task_results) = <<plan[2].id>>

\* C30: in every state returned by run, validation is set exactly when the validator
\* was called and returned a verdict, and then it is that verdict: set for every
\* Completed run and every run that failed at or after a returned verdict, unset
\* when the run failed before the validator was called or the validator raised.
C30_ValidationSetIffVerdictReturned ==
    Returned =>
        /\ (status = "Completed" => IsSet(validation))
        /\ (calls.validate = 0 => validation = None)
        /\ (calls.validate >= 1 =>
               LET r == validate(plan, task_results)
               IN  validation = (IF r.raises THEN None ELSE Some(r.value)))

C30_Witness ==
    /\ Returned
    /\ status = "Failed"
    /\ calls.validate = 1
    /\ validation = None
    /\ IsSet(error)
    /\ Get(error)[1] = "Validation error: "

(***************************************************************************)
(* Order of execution, retries, the observer, the plan and the events      *)
(***************************************************************************)
\* C32: at most one task of the plan has status in_progress in any reachable state,
\* and task k+1 is not handed to the executor before task k is completed or failed.
C32_TasksRunOneAtATime ==
    /\ Cardinality({ i \in 1..Len(plan) : plan[i].status = "in_progress" }) <= 1
    /\ \A k \in 1..(Len(plan) - 1) :
           k + 1 <= Len(calls.execute) /\ calls.execute[k + 1] >= 1
               => plan[k].status \in {"completed", "failed"}

\* C33: within one run the planner is invoked exactly once, the validator and the
\* synthesizer at most once each and every task at most once, also after a failure.
C33_NoStageIsRetried ==
    /\ calls.plan <= 1
    /\ calls.validate <= 1
    /\ calls.synthesize <= 1
    /\ \A i \in 1..Len(calls.execute) : calls.execute[i] <= 1
    /\ (pc \in {"returned", "raised"} => calls.plan = 1)

C33_Witness ==
    /\ pc = "returned"
    /\ Len(plan) = 2
    /\ plan[1].status = "failed"
    /\ plan[2].status = "completed"
    /\ calls.plan = 1
    /\ calls.execute = <<1, 1>>
    /\ calls.validate = 1
    /\ calls.synthesize = 0

\* a collaborator other than the logger failed or rejected the run
CollaboratorFailed ==
    \/ PlanningFailed
    \/ ValidatorRaised
    \/ VerdictInvalid
    \/ (calls.synthesize = 1 /\ final_answer = None)
    \/ (IsSet(final_answer)
        /\ build_final_report(query, plan, task_results, validation, final_answer).raises)

\* C34: a logger that raises does not fail the run: a returned run is Failed only
\* when the planner, the validator, the verdict, the synthesizer or the report
\* construction failed it.
C34_LoggerFailureDoesNotFailRun ==
    Returned /\ status = "Failed" => CollaboratorFailed

\* C37: once the planner has returned, the sequence of task ids never changes, and
\* outside execute_task no step changes any task.
C37_PlanFixedAfterPlanning ==
    [][pc # "plan" =>
          /\ DictKeysOfPlan' = DictKeysOfPlan
          /\ (pc \notin {"execute_begin", "execute_body"} => plan' = plan)]_vars

C37_Witness ==
    /\ pc = "returned"
    /\ status = "Failed"
    /\ Len(plan) = 2
    /\ IsSet(error)
    /\ calls.synthesize = 1

\* C38: in a run whose planner produced tasks with status pending and no error, at
\* every point outside execute_task a task is completed exactly when task_results
\* holds an entry for its id, a failed task has an error and no entry, and a
\* completed task has no error.
C38_StatusMatchesResults ==
    calls.planned_clean /\ pc # "execute_body" =>
        \A i \in 1..Len(plan) :
            /\ (plan[i].status = "completed" <=> DictHas(task_results, plan[i].id))
            /\ (plan[i].status = "failed" =>
                    IsSet(plan[i].error) /\ ~ DictHas(task_results, plan[i].id))
            /\ (plan[i].status = "completed" => plan[i].error = None)

C38_Witness ==
    /\ calls.planned_clean
    /\ pc = "validating"
    /\ Len(plan) = 2
    /\ plan[1].status = "completed"
    /\ plan[2].status = "failed"
    /\ IsSet(plan[2].error)
    /\ DictKeys(task_results) = <<plan[1].id>>

\* positions of the events of one name in the run's event sequence
EventPositions(name) == { i \in 1..Len(calls.events) : calls.events[i].name = name }

\* C39: PLAN_CREATED precedes every TASK_STARTED; between two TASK_STARTED lies the
\* TASK_COMPLETED of the first; VALIDATION_STARTED follows every task event;
\* VALIDATION_FAILED and SYNTHESIS_STARTED never both occur; FINAL_ANSWER comes
\* after SYNTHESIS_STARTED and REPORT_CREATED after FINAL_ANSWER.
C39_EventsAreOrdered ==
    LET ev == calls.events
        Before(a, b) == \A j \in EventPositions(b) : \E i \in EventPositions(a) : i < j
    IN  /\ Before("PLAN_CREATED", "TASK_STARTED")
        /\ \A i \in EventPositions("TASK_STARTED") : \A j \in EventPositions("TASK_STARTED") :
               i < j => \E m \in EventPositions("TASK_COMPLETED") :
                            i < m /\ m < j /\ ev[m].task = ev[i].task
        /\ \A i \in EventPositions("TASK_COMPLETED") :
               \E j \in EventPositions("TASK_STARTED") : j < i /\ ev[j].task = ev[i].task
        /\ \A i \in EventPositions("VALIDATION_STARTED") :
               \A j \in EventPositions("TASK_STARTED") \cup EventPositions("TASK_COMPLETED") : j < i
        /\ (EventPositions("VALIDATION_STARTED") # {} /\ plan # <<>> =>
               \E m \in EventPositions("TASK_COMPLETED") : ev[m].task = plan[Len(plan)].id)
        /\ ~ (EventPositions("VALIDATION_FAILED") # {} /\ EventPositions("SYNTHESIS_STARTED") # {})
        /\ Before("SYNTHESIS_STARTED", "FINAL_ANSWER")
        /\ Before("FINAL_ANSWER", "REPORT_CREATED")

C39_Witness ==
    /\ pc = "returned"
    /\ status = "Completed"
    /\ Len(plan) = 2
    /\ Len(calls.events) = 9
    /\ calls.events[9].name = "REPORT_CREATED"

(***************************************************************************)
(* _build_final_report called on constructed states                        *)
(***************************************************************************)
MaxReportTasks == 3

ReportTickers == { NoTicker, StrTicker(""), StrTicker("aapl"), StrTicker("AAPL"),
                   StrTicker("msft"), ObjTicker }
ReportSymbols == { NoTicker, StrTicker("msft") }
ReportTaskSpecs ==
    [description : {<<"Fetch ", "Income Statement">>}, tool_name : ToolNames,
     ticker : ReportTickers, symbol : ReportSymbols, status : {"completed"}, error : {None}]

\* a state as it is at controller.py:62, with final_answer set and status Completed
ReportInit ==
    /\ pc = "direct_report"
    /\ query \in Queries
    /\ status = "Completed"
    /\ \E n \in 0..MaxReportTasks :
         \E specs \in [1..n -> ReportTaskSpecs] :
            /\ plan = [i \in 1..n |-> Task(i, specs[i])]
            /\ current_task_index = n
            /\ idx = n
    /\ task_results = <<>>
    /\ validation = Some([is_valid |-> TRUE, issues |-> <<>>, confidence |-> ValidConfidence])
    /\ final_answer = Some(<<"answer">>)
    /\ report = None
    /\ error = None
    /\ error_source = None
    /\ exc = None
    /\ calls = [plan |-> 0, execute |-> <<>>, fetch |-> 0, validate |-> 0, synthesize |-> 0,
                classified |-> None, confidence |-> None,
                events |-> <<>>, planned_clean |-> FALSE]
    /\ router = RouterIdle
    /\ cli = CliIdle
    /\ runs = RunsIdle

\* state.report = self._build_final_report(state)
BuildReportDirect ==
    /\ pc = "direct_report"
    /\ LET r == build_final_report(query, plan, task_results, validation, final_answer) IN
         IF r.raises
         THEN /\ pc' = "report_raised"
              /\ exc' = Some(r.msg)
              /\ UNCHANGED report
         ELSE /\ pc' = "report_built"
              /\ report' = Some(r.value)
              /\ UNCHANGED exc
    /\ UNCHANGED <<cli, runs, router, query, status, plan, task_results, current_task_index, idx,
                   validation, final_answer, error, error_source, calls>>

ReportNext == Next \/ BuildReportDirect

\* the states of a run together with the states handed to _build_final_report
SpecReport == (Init \/ ReportInit) /\ [][ReportNext]_vars

\* the tasks of the plan that carry a ticker-like argument
TasksWithTicker ==
    { i \in 1..Len(plan) :
        \/ ~ TickerFalsy(plan[i].ticker)
        \/ ~ TickerFalsy(plan[i].symbol) }
\* 'ticker', else 'symbol', upper-cased
UpperTickerOf(i) ==
    UpperTok(IF TickerFalsy(plan[i].ticker) THEN plan[i].symbol.val ELSE plan[i].ticker.val)
FirstTaskWith(tk) ==
    CHOOSE i \in TasksWithTicker :
        /\ UpperTickerOf(i) = tk
        /\ \A j \in TasksWithTicker : UpperTickerOf(j) = tk => i <= j
StringTickersOnly ==
    \A i \in 1..Len(plan) : plan[i].ticker.kind # "obj" /\ plan[i].symbol.kind # "obj"

\* C36: for a plan whose ticker-like arguments are strings, _build_final_report
\* returns a report whose ticker list holds exactly the upper-cased 'ticker' (else
\* 'symbol') arguments of the tasks that have one, each once, in the order of their
\* first task; a plan without tickers gives the empty list.
C36_TickersUpperDedupedInOrder ==
    pc \in {"direct_report", "report_built", "report_raised"} /\ StringTickersOnly =>
        /\ pc # "report_raised"
        /\ pc = "report_built" =>
             LET ts == Get(report).tickers IN
             /\ { ts[k] : k \in 1..Len(ts) } = { UpperTickerOf(i) : i \in TasksWithTicker }
             /\ \A a \in 1..Len(ts) : \A b \in 1..Len(ts) :
                    a < b => ts[a] # ts[b] /\ FirstTaskWith(ts[a]) < FirstTaskWith(ts[b])

C36_Witness ==
    /\ pc = "report_built"
    /\ Len(plan) = 3
    /\ plan[1].ticker = StrTicker("msft")
    /\ plan[2].ticker = StrTicker("aapl")
    /\ plan[3].ticker = StrTicker("")
    /\ plan[3].symbol = StrTicker("msft")
    /\ Get(report).tickers = <<"MSFT", "AAPL">>

(***************************************************************************)
(* The command-line entry point: preflight_check, main, execute_research   *)
(***************************************************************************)
MaxReplTurns == 1

JasperError(kind, message, suggestion) ==
    [raises |-> TRUE, kind |-> kind, message |-> message, suggestion |-> suggestion]

KeySuggestion == <<"1. Get a free key at https://openrouter.ai/keys", "\n",
                   "2. Create .env file in your working directory", "\n",
                   "3. Add: ", "OPENROUTER_API_KEY", "=<your-key>">>

\* variant that rejects an unset variable only (`if key is None`)
get_llm_api_keyNoneOnly(key) ==
    IF key = None
    THEN JasperError("ConfigError", <<"OPENROUTER_API_KEY", " not set">>, Some(KeySuggestion))
    ELSE [raises |-> FALSE, value |-> Get(key)]

\* key = os.getenv("OPENROUTER_API_KEY"); if not key: raise ConfigError(...)
get_llm_api_key(key) ==
    IF ~ TruthyStr(key)
    THEN JasperError("ConfigError", <<"OPENROUTER_API_KEY", " not set">>, Some(KeySuggestion))
    ELSE [raises |-> FALSE, value |-> Get(key)]

\* a ConfigError is re-raised as it is; the import of core.config cannot fail
preflight_check(key) ==
    LET r == get_llm_api_key(key) IN
    IF r.raises THEN r ELSE [raises |-> FALSE, value |-> <<>>]

\* get_llm(temperature=0): any failure becomes an LLMError
get_llm(key, client_ok) ==
    LET r == get_llm_api_key(key) IN
    IF r.raises
    THEN JasperError("LLMError", r.message,
                     Some(<<"Set ", "OPENROUTER_API_KEY", " in .env file before running Jasper">>))
    ELSE IF ~ client_ok
    THEN JasperError("LLMError", <<"Failed to initialize LLM: ", "invalid client settings">>,
                     Some(<<"Check that ", "OPENROUTER_API_KEY", " is valid and model is available">>))
    ELSE [raises |-> FALSE, value |-> r.value]

\* the environment variable: unset, empty or set
Keys == { None, Some(<<>>), Some(<<"sk-or-v1-0123">>) }
\* the positional argument of the command
Args == { None, Some(<<>>) } \cup { Some(q) : q \in Queries }
ExitWords == { "exit", "quit", "/bye" }
UserInputs == { <<"exit">>, <<>>, <<"KeyboardInterrupt">> } \cup Queries

\* "\n".join(f"Q: {q}\nA: {a}" for q, a in history[-2:])
ContextEntry(e) == <<"Q: ">> \o e[1] \o <<"\nA: ">> \o e[2]
ContextStr(history) ==
    LET n == Len(history)
        last == IF n > 2 THEN SubSeq(history, n - 1, n) ELSE history
    IN  IF Len(last) = 1 THEN ContextEntry(last[1])
        ELSE ContextEntry(last[1]) \o <<"\n">> \o ContextEntry(last[2])
EffectiveQuery(history, user_input) ==
    IF history = <<>> THEN user_input
    ELSE <<"PREVIOUS CONTEXT:\n">> \o ContextStr(history)
             \o <<"\n\nCURRENT QUERY:\n">> \o user_input

NoCalls == [plan |-> 0, execute |-> <<>>, fetch |-> 0, validate |-> 0, synthesize |-> 0,
            classified |-> None, confidence |-> None,
            events |-> <<>>, planned_clean |-> FALSE]

\* the process has started and main() is about to run; no Jasperstate exists yet
CliInit ==
    /\ pc = "idle"
    /\ query = <<>>
    /\ status = "Planning"
    /\ plan = <<>>
    /\ task_results = <<>>
    /\ current_task_index = 0
    /\ idx = 0
    /\ validation = None
    /\ final_answer = None
    /\ report = None
    /\ error = None
    /\ error_source = None
    /\ exc = None
    /\ calls = NoCalls
    /\ router = RouterIdle
    /\ runs = RunsIdle
    /\ \E k \in Keys, a \in Args :
         cli = [pc |-> "preflight", key |-> k, arg |-> a, mode |-> "none",
                input |-> <<>>, exit_code |-> None, shown |-> None, controllers |-> 0,
                prompts |-> 0, history |-> <<>>]

\* the "Setup Required" panel: e.message and, under "Setup Instructions:", e.suggestion
Shown(title, message, suggestion) ==
    [title |-> title, message |-> message, suggestion |-> suggestion]

\* main: the preflight block
Preflight ==
    /\ cli.pc = "preflight"
    /\ LET r == preflight_check(cli.key) IN
         IF r.raises
         THEN cli' = [cli EXCEPT !.pc = "exited",
                                 !.shown = Some(Shown("Setup Required", r.message, r.suggestion)),
                                 !.exit_code = Some(1)]
         ELSE cli' = [cli EXCEPT !.pc = "dispatch"]
    /\ UNCHANGED <<runs, router, runvars>>

\* main: `if query:` single run, else the interactive loop with an empty history
Dispatch ==
    /\ cli.pc = "dispatch"
    /\ IF TruthyStr(cli.arg)
       THEN cli' = [cli EXCEPT !.pc = "research", !.mode = "single", !.input = Get(cli.arg)]
       ELSE cli' = [cli EXCEPT !.pc = "prompt", !.mode = "repl", !.history = <<>>]
    /\ UNCHANGED <<runs, router, runvars>>

\* main: one Prompt.ask of the interactive loop
Prompt ==
    /\ cli.pc = "prompt"
    /\ \E u \in UserInputs :
         IF u = <<"KeyboardInterrupt">> \/ (Len(u) = 1 /\ LowerTok(u[1]) \in ExitWords)
         THEN cli' = [cli EXCEPT !.pc = "exited", !.exit_code = Some(0)]
         ELSE /\ cli.prompts < MaxReplTurns
              /\ IF u = <<>>
                 THEN cli' = [cli EXCEPT !.prompts = @ + 1]
                 ELSE cli' = [cli EXCEPT !.prompts = @ + 1, !.input = u, !.pc = "research"]
    /\ UNCHANGED <<runs, router, runvars>>

\* after an exception in execute_research the message is printed; main then leaves
\* with code 1, or goes on with the loop
AfterError ==
    IF cli.mode = "single"
    THEN [cli EXCEPT !.pc = "exited", !.exit_code = Some(1)]
    ELSE [cli EXCEPT !.pc = "prompt"]

\* execute_research up to `state = await controller.run(query)`
StartResearch ==
    /\ cli.pc = "research"
    /\ \E client_ok \in BOOLEAN :
         LET llm == get_llm(cli.key, client_ok) IN
         IF llm.raises
         THEN /\ cli' = AfterError
              /\ UNCHANGED runvars
         ELSE /\ cli' = [cli EXCEPT !.pc = "running", !.controllers = @ + 1]
              /\ pc' = "plan"
              /\ query' = EffectiveQuery(cli.history, cli.input)
              /\ status' = "Planning"
              /\ plan' = <<>>
              /\ task_results' = <<>>
              /\ current_task_index' = 0
              /\ idx' = 0
              /\ validation' = None
              /\ final_answer' = None
              /\ report' = None
              /\ error' = None
              /\ error_source' = None
              /\ exc' = None
              /\ calls' = NoCalls
    /\ UNCHANGED <<runs, router>>

\* controller.run has returned or raised: the rest of execute_research and of main
FinishResearch ==
    /\ cli.pc = "running"
    /\ pc \in {"returned", "raised"}
    /\ pc' = "idle"
    /\ IF pc = "raised"
       THEN cli' = AfterError
       ELSE IF cli.mode = "single"
       THEN cli' = [cli EXCEPT !.pc = "exited", !.exit_code = Some(0)]
       ELSE cli' = [cli EXCEPT
                      !.pc = "prompt",
                      !.history = IF status = "Completed" /\ IsSet(validation)
                                     /\ Get(validation).is_valid
                                  THEN Append(@, <<cli.input, Get(final_answer)>>)
                                  ELSE @]
    \* the Jasperstate of the run is not kept
    /\ query' = <<>>
    /\ status' = "Planning"
    /\ plan' = <<>>
    /\ task_results' = <<>>
    /\ current_task_index' = 0
    /\ idx' = 0
    /\ validation' = None
    /\ final_answer' = None
    /\ report' = None
    /\ error' = None
    /\ error_source' = None
    /\ exc' = None
    /\ calls' = NoCalls
    /\ UNCHANGED <<runs, router>>

CliNext == Next \/ Preflight \/ Dispatch \/ Prompt \/ StartResearch \/ FinishResearch

SpecCli == CliInit /\ [][CliNext]_vars

KeyMissing == ~ TruthyStr(cli.key)
NamesTheKey(message) == \E i \in 1..Len(message) : message[i] = "OPENROUTER_API_KEY"

\* C35: when OPENROUTER_API_KEY is unset or empty, get_llm_api_key raises a
\* ConfigError whose message names the key and whose suggestion is set, main exits
\* with code 1 showing them, and no controller is constructed or run: no planner,
\* provider, validator or synthesizer call occurs.
C35_MissingKeyFailsFast ==
    cli.pc # "idle" /\ KeyMissing =>
        /\ LET r == get_llm_api_key(cli.key) IN
             /\ r.raises
             /\ r.kind = "ConfigError"
             /\ NamesTheKey(r.message)
             /\ r.suggestion # None
        /\ cli.pc \in {"preflight", "exited"}
        /\ cli.controllers = 0
        /\ pc = "idle"
        /\ calls = NoCalls
        /\ cli.pc = "exited" =>
             /\ cli.exit_code = Some(1)
             /\ IsSet(cli.shown)
             /\ NamesTheKey(Get(cli.shown).message)
             /\ Get(cli.shown).suggestion # None

C35_Witness ==
    /\ cli.pc = "exited"
    /\ cli.key = Some(<<>>)
    /\ IsSet(cli.arg)
    /\ cli.exit_code = Some(1)
    /\ cli.controllers = 0

(***************************************************************************)
(* Two run() invocations interleaved on one controller instance            *)
(***************************************************************************)
RunIds == { "r1", "r2" }
RunQuery(r) ==
    IF r = "r1" THEN <<"What is Apple's revenue trend?">>
    ELSE <<"Compare AAPL vs MSFT cash flow">>

\* what the collaborators answer to one invocation
TwoRunTaskSpecs ==
    [description : {<<"Fetch ", "Income Statement">>}, tool_name : ToolNames,
     ticker : {NoTicker, StrTicker("aapl")}, symbol : Symbols, status : {"pending"},
     error : {None}]
TwoRunResponses ==
    { Raise(m) : m \in OracleFailures } \cup
    { Return(ts) : ts \in SeqsUpTo(TwoRunTaskSpecs, MaxTasks) }
TwoRunOuts ==
    { [i \in 1..NumProviders |-> Raise(<<"HTTP 500">>)],
      [i \in 1..NumProviders |-> IF i = 1 THEN Raise(<<"HTTP 500">>)
                                 ELSE Return(Dict(1, IntRev(100)))] }
TwoRunSynth == { Return(<<"Validated Financial Research Results">>), Raise(<<"Timeout">>) }
RunInputs ==
    [response : TwoRunResponses, outs : TwoRunOuts, synth : TwoRunSynth]

\* Jasperstate(query=query): a new object whose collections are its own
NewState(q) ==
    [query |-> q, status |-> "Planning", plan |-> <<>>, task_results |-> <<>>,
     current_task_index |-> 0, validation |-> None, final_answer |-> None,
     report |-> None, error |-> None, error_source |-> None]

\* variant in which the controller keeps the state of the run in one attribute
StateOfShared(r) == 1

\* the object the local variable `state` of invocation r refers to
StateOf(r) == runs.local[r].ref

\* state.current_task_index = idx, and execute_task up to its await
BeginTask(s, i) ==
    [s EXCEPT !.current_task_index = i, !.plan[i + 1].status = "in_progress"]

\* except Exception in the synthesis block
Classified(s, msg) ==
    LET c == Classify(msg) IN
    [s EXCEPT !.error = Some(c.error), !.error_source = Some(c.error_source),
              !.status = "Failed"]

Resumed(s, p, i) == [obj |-> s, pc |-> p, idx |-> i]

\* planner.plan has answered: up to the await of the first task
PlanReturned(s, inp) ==
    LET r == PlannerPlan(inp.response) IN
    IF r.raises
    THEN Resumed([s EXCEPT !.status = "Failed", !.error = Some(r.msg)], "returned", 0)
    ELSE Resumed(BeginTask([s EXCEPT !.plan = r.value, !.status = "Executing"], 0),
                 "await_fetch", 0)

\* the loop is over: validation, up to the await of the synthesizer
AfterLoop(s, i) ==
    LET v == validate(s.plan, s.task_results) IN
    IF v.raises
    THEN Resumed([s EXCEPT !.status = "Failed",
                           !.error = Some(<<"Validation error: ">> \o v.msg)], "returned", i)
    ELSE IF ~ v.value.is_valid
    THEN Resumed([s EXCEPT !.validation = Some(v.value), !.status = "Failed"], "returned", i)
    ELSE Resumed([s EXCEPT !.validation = Some(v.value), !.status = "Synthesizing"],
                 "await_synth", i)

\* the router has answered task i + 1: the rest of execute_task, then the next task
FetchReturned(s, i, inp) ==
    LET task == s.plan[i + 1]
        r == ExecuteBody(task, inp.outs)
        s1 == IF r.raises
              THEN [s EXCEPT !.plan[i + 1].status = "failed",
                             !.plan[i + 1].error = Some(r.msg)]
              ELSE [s EXCEPT !.task_results = DictSet(@, task.id, r.value),
                             !.plan[i + 1].status = "completed"]
    IN  IF i + 1 < Len(s.plan)
        THEN Resumed(BeginTask(s1, i + 1), "await_fetch", i + 1)
        ELSE AfterLoop(s1, i + 1)

\* synthesizer.synthesize has answered: the rest of run
SynthReturned(s, i, inp) ==
    IF inp.synth.raises
    THEN Resumed(Classified(s, inp.synth.msg), "returned", i)
    ELSE LET s1 == [s EXCEPT !.final_answer = Some(inp.synth.value), !.status = "Completed"]
             rep == build_final_report(s1.query, s1.plan, s1.task_results, s1.validation,
                                       s1.final_answer)
         IN  IF rep.raises
             THEN Resumed(Classified(s1, rep.msg), "returned", i)
             ELSE Resumed([s1 EXCEPT !.report = Some(rep.value)], "returned", i)

\* the code of run between two suspension points
RunStep(s, l) ==
    CASE l.pc = "await_plan" -> PlanReturned(s, l.inp)
      [] l.pc = "await_fetch" -> FetchReturned(s, l.idx, l.inp)
      [] l.pc = "await_synth" -> SynthReturned(s, l.idx, l.inp)

\* one controller, two invocations of run not yet started
TwoRunsInit ==
    /\ ControllerAtStart
    /\ router = RouterIdle
    /\ cli = CliIdle
    /\ \E inps \in [RunIds -> RunInputs] :
         runs = [heap |-> <<>>,
                 local |-> [r \in RunIds |->
                              [pc |-> "start", ref |-> 0, idx |-> 0, inp |-> inps[r]]]]

\* state = Jasperstate(query=query); state.status = "Planning"; await self.planner.plan(query)
RunStart(r) ==
    /\ runs.local[r].pc = "start"
    /\ runs' = [runs EXCEPT !.heap = Append(@, NewState(RunQuery(r))),
                            !.local[r].ref = Len(runs.heap) + 1,
                            !.local[r].pc = "await_plan"]
    /\ UNCHANGED <<cli, router, runvars>>

\* the awaited collaborator has answered and run goes on to its next await or its return
RunResume(r) ==
    /\ runs.local[r].pc \in {"await_plan", "await_fetch", "await_synth"}
    /\ LET o == RunStep(runs.heap[StateOf(r)], runs.local[r]) IN
         runs' = [runs EXCEPT !.heap[StateOf(r)] = o.obj,
                              !.local[r].pc = o.pc,
                              !.local[r].idx = o.idx]
    /\ UNCHANGED <<cli, router, runvars>>

TwoRunsNext == \E r \in RunIds : RunStart(r) \/ RunResume(r)

SpecTwoRuns == TwoRunsInit /\ [][TwoRunsNext]_vars

RECURSIVE SoloFrom(_, _)
SoloFrom(s, l) ==
    IF l.pc = "returned" THEN s
    ELSE LET o == RunStep(s, l) IN SoloFrom(o.obj, [l EXCEPT !.pc = o.pc, !.idx = o.idx])
\* the state run returns when invocation r is the only one
Solo(r) ==
    SoloFrom(NewState(RunQuery(r)), [runs.local[r] EXCEPT !.pc = "await_plan", !.idx = 0])

Started(r) == runs.local[r].pc # "start"

====
